---------------------------- MODULE Spec2Model ----------------------------
(***************************************************************************)
(* A model of the stimulus generator (FastAPI application under src/app).  *)
(*                                                                         *)
(* Conventions                                                             *)
(*   - A Python str that the code takes apart (ids, file names, query      *)
(*     strings) is a sequence of one-character strings; a str the code     *)
(*     only stores and compares is a TLA+ string.                          *)
(*   - An Optional value / a nullable column is a set: {} is None/NULL and *)
(*     {v} holds v.                                                        *)
(*   - A REAL column or float field is held in hundredths (0.75 is 75,     *)
(*     -6.0 is -600); INTEGER columns are held as they are.                *)
(*   - Every `with get_db()` scope of src/app/db/database.py is one        *)
(*     transaction; request handlers interleave between scopes.            *)
(***************************************************************************)
EXTENDS Integers, Sequences, FiniteSets, TLC

(***************************************************************************)
(* Bounds of the model.                                                    *)
(***************************************************************************)
\* the highest sequence number of a stimulus id while one handler runs
MaxSeq == 2

\* highest sequence number of a stimulus id while two handlers run
MaxRaceSeq == 1

(***************************************************************************)
(* Optional values.                                                        *)
(***************************************************************************)
None == {}

Some(v) == {v}

Get(o) == CHOOSE v \in o : TRUE

(***************************************************************************)
(* Strings as character sequences.                                         *)
(***************************************************************************)
Digits == <<"0", "1", "2", "3", "4", "5", "6", "7", "8", "9">>

IsDigit(c) == \E d \in 1..10 : Digits[d] = c

DigitVal(c) == (CHOOSE d \in 1..10 : Digits[d] = c) - 1

\* the byte value of a character (the order of SQLite's BINARY collation)
CharCode(c) ==
    CASE c = " " -> 32
      [] c = "," -> 44
      [] c = "-" -> 45
      [] c = "." -> 46
      [] c = "/" -> 47
      [] IsDigit(c) -> 48 + DigitVal(c)
      [] c = "A" -> 65
      [] c = "I" -> 73
      [] c = "M" -> 77
      [] c = "S" -> 83
      [] c = "T" -> 84
      [] c = "X" -> 88
      [] c = "_" -> 95
      [] c = "a" -> 97
      [] c = "b" -> 98
      [] c = "m" -> 109
      [] c = "o" -> 111
      [] c = "p" -> 112
      [] c = "s" -> 115
      [] c = "t" -> 116
      [] c = "u" -> 117

RECURSIVE StrLess(_, _)
StrLess(a, b) ==
    IF a = <<>> THEN b # <<>>
    ELSE IF b = <<>> THEN FALSE
    ELSE IF a[1] = b[1] THEN StrLess(Tail(a), Tail(b))
    ELSE CharCode(a[1]) < CharCode(b[1])

\* str.split(sep): the segments between occurrences of sep (never empty)
RECURSIVE SplitFrom(_, _, _)
SplitFrom(s, sep, cur) ==
    IF s = <<>> THEN <<cur>>
    ELSE IF s[1] = sep THEN <<cur>> \o SplitFrom(Tail(s), sep, <<>>)
    ELSE SplitFrom(Tail(s), sep, Append(cur, s[1]))

Split(s, sep) == SplitFrom(s, sep, <<>>)

IsSpace(c) == c = " "

\* str.strip(): leading and trailing whitespace removed
RECURSIVE LStrip(_)
LStrip(s) == IF s # <<>> /\ IsSpace(s[1]) THEN LStrip(Tail(s)) ELSE s

RECURSIVE RStrip(_)
RStrip(s) ==
    IF s # <<>> /\ IsSpace(s[Len(s)]) THEN RStrip(SubSeq(s, 1, Len(s) - 1)) ELSE s

Strip(s) == RStrip(LStrip(s))

\* int(s) for a run of ASCII digits; anything else raises ValueError
IsNumeral(s) == s # <<>> /\ \A i \in 1..Len(s) : IsDigit(s[i])

RECURSIVE ParseInt(_)
ParseInt(s) ==
    IF Len(s) = 1 THEN DigitVal(s[1])
    ELSE 10 * ParseInt(SubSeq(s, 1, Len(s) - 1)) + DigitVal(s[Len(s)])

RECURSIVE DigitsOf(_)
DigitsOf(n) ==
    IF n < 10 THEN <<Digits[n + 1]>>
    ELSE Append(DigitsOf(n \div 10), Digits[(n % 10) + 1])

\* f"{n:03d}" for n >= 0: decimal, zero-padded to at least three digits
Format03d(n) ==
    LET d == DigitsOf(n)
    IN  IF Len(d) >= 3 THEN d ELSE [i \in 1..(3 - Len(d)) |-> "0"] \o d

STIM == <<"S", "T", "I", "M">>

StimId(n) == STIM \o <<"_">> \o Format03d(n)


(***************************************************************************)
(* Domain schemas (src/app/models/schemas.py): the defaults a request body *)
(* receives for every field it omits.                                      *)
(***************************************************************************)
MusicParams ==
    [track |-> "", volume_db |-> -600, speech_entry_ms |-> 0, crossfade_ms |-> 2000]

VoiceParams ==
    [model |-> "eleven_multilingual_v2", voice_id |-> "", voice_name |-> "",
     stability |-> 50, similarity_boost |-> 75, style_exaggeration |-> 0,
     speaker_boost |-> TRUE, speed |-> 100]

TextParams ==
    [source |-> "manual", llm_model |-> "", llm_temperature |-> 70,
     llm_prompt |-> "", speech_text |-> "", target_words |-> None]

MixParams ==
    [reverb_mix |-> 2500, reverb_decay |-> 150, compression_ratio |-> 200,
     deesser_threshold |-> -600, eq_low_cut |-> 80, eq_high_cut |-> 12000,
     pitch_shift |-> 0, normalization_lufs |-> -1600]

ProsodyParams == [reference |-> "none", intensity |-> 0]

StimulusCreate ==
    [id |-> None, music |-> MusicParams, voice |-> VoiceParams, text |-> TextParams,
     mix |-> MixParams, prosody |-> ProsodyParams, notes |-> <<>>]

\* pydantic validation of a request body: `given` holds the fields the body
\* supplies, every other field of `defaults` keeps its default
WithDefaults(defaults, given) ==
    [f \in DOMAIN defaults |-> IF f \in DOMAIN given THEN given[f] ELSE defaults[f]]

\* a StimulusCreate body whose groups are given partially
ParseStimulusCreate(body) ==
    [f \in DOMAIN StimulusCreate |->
        IF f \notin DOMAIN body THEN StimulusCreate[f]
        ELSE IF f \in {"id", "notes"} THEN body[f]
        ELSE WithDefaults(StimulusCreate[f], body[f])]

(***************************************************************************)
(* Data access (src/app/db/crud.py).  The stimuli table is a function from *)
(* the ids present to their rows; the columns of one parameter group (the  *)
(* columns named music_..., voice_..., and so on) are held as one record.  *)
(***************************************************************************)
\* Python's `x or d` on a number and on a str
OrNum(x, d) == IF x = 0 THEN d ELSE x

OrStr(x, d) == IF x = "" THEN d ELSE x

OUTPUTS_URL == <<"/", "o", "u", "t", "p", "u", "t", "s", "/">>

_row_to_stimulus(id, row) ==
    [id |-> id,
     status |-> OrStr(row.status, "draft"),
     audio_url |-> IF row.audio_filename # None /\ Get(row.audio_filename) # <<>>
                   THEN Some(OUTPUTS_URL \o Get(row.audio_filename))
                   ELSE None,
     duration_ms |-> row.duration_ms,
     music |-> [track |-> OrStr(row.music.track, ""),
                volume_db |-> OrNum(row.music.volume_db, -600),
                speech_entry_ms |-> OrNum(row.music.speech_entry_ms, 0),
                crossfade_ms |-> OrNum(row.music.crossfade_ms, 2000)],
     voice |-> [model |-> OrStr(row.voice.model, "eleven_multilingual_v2"),
                voice_id |-> OrStr(row.voice.voice_id, ""),
                voice_name |-> OrStr(row.voice.voice_name, ""),
                stability |-> OrNum(row.voice.stability, 50),
                similarity_boost |-> OrNum(row.voice.similarity_boost, 75),
                style_exaggeration |-> OrNum(row.voice.style_exaggeration, 0),
                speaker_boost |-> row.voice.speaker_boost # 0,
                speed |-> OrNum(row.voice.speed, 100)],
     text |-> [source |-> OrStr(row.text.source, "manual"),
               llm_model |-> OrStr(row.text.llm_model, ""),
               llm_temperature |-> OrNum(row.text.llm_temperature, 70),
               llm_prompt |-> OrStr(row.text.llm_prompt, ""),
               speech_text |-> OrStr(row.text.speech_text, ""),
               target_words |-> None],
     mix |-> [reverb_mix |-> OrNum(row.mix.reverb_mix, 2500),
              reverb_decay |-> OrNum(row.mix.reverb_decay, 150),
              compression_ratio |-> OrNum(row.mix.compression_ratio, 200),
              deesser_threshold |-> OrNum(row.mix.deesser_threshold, -600),
              eq_low_cut |-> OrNum(row.mix.eq_low_cut, 80),
              eq_high_cut |-> OrNum(row.mix.eq_high_cut, 12000),
              pitch_shift |-> OrNum(row.mix.pitch_shift, 0),
              normalization_lufs |-> OrNum(row.mix.normalization_lufs, -1600)],
     prosody |-> [reference |-> OrStr(row.prosody.reference, "none"),
                  intensity |-> OrNum(row.prosody.intensity, 0)],
     notes |-> row.notes]

ToUpper(c) ==
    CASE c = "s" -> "S"
      [] c = "t" -> "T"
      [] c = "m" -> "M"
      [] c = "a" -> "A"
      [] OTHER -> c

\* id LIKE 'STIM_%': case-insensitive, `_` is any one character, `%` any run
LikeStim(id) == Len(id) >= 5 /\ \A i \in 1..4 : ToUpper(id[i]) = STIM[i]

\* ORDER BY id DESC LIMIT 1 over the matching ids (byte-wise string order)
TopStimId(ids) == CHOOSE x \in ids : \A y \in ids \ {x} : StrLess(y, x)

get_next_stimulus_id(table) ==
    LET ids == {id \in DOMAIN table : LikeStim(id)}
    IN  IF ids = {} THEN StimId(1)
        ELSE LET parts == Split(TopStimId(ids), "_")
             IN  IF Len(parts) >= 2 /\ IsNumeral(Strip(parts[2]))
                 THEN StimId(ParseInt(Strip(parts[2])) + 1)
                 ELSE StimId(1)

\* a variant of the INSERT whose positional values for voice_stability and
\* voice_similarity_boost are exchanged
InsertedRowShifted(stimulus) ==
    [status |-> "draft", audio_filename |-> None, duration_ms |-> None,
     music |-> stimulus.music,
     voice |-> [stimulus.voice EXCEPT !.speaker_boost = IF @ THEN 1 ELSE 0,
                                      !.stability = stimulus.voice.similarity_boost,
                                      !.similarity_boost = stimulus.voice.stability],
     text |-> [f \in DOMAIN stimulus.text \ {"target_words"} |-> stimulus.text[f]],
     mix |-> stimulus.mix,
     prosody |-> stimulus.prosody,
     notes |-> stimulus.notes]

\* the row INSERTed by create_stimulus: status draft, no audio, no duration
InsertedRow(stimulus) ==
    [status |-> "draft", audio_filename |-> None, duration_ms |-> None,
     music |-> stimulus.music,
     voice |-> [stimulus.voice EXCEPT !.speaker_boost = IF @ THEN 1 ELSE 0],
     text |-> [f \in DOMAIN stimulus.text \ {"target_words"} |-> stimulus.text[f]],
     mix |-> stimulus.mix,
     prosody |-> stimulus.prosody,
     notes |-> stimulus.notes]

\* `stimulus.id or get_next_stimulus_id()`
IdOrNext(table, id) ==
    IF id # None /\ Get(id) # <<>> THEN Get(id) ELSE get_next_stimulus_id(table)

\* create_stimulus: the INSERT raises IntegrityError when the id is present
create_stimulus(table, stimulus) ==
    LET stimulus_id == IdOrNext(table, stimulus.id)
    IN  IF stimulus_id \in DOMAIN table
        THEN [raised |-> TRUE, id |-> stimulus_id, table |-> table]
        ELSE [raised |-> FALSE, id |-> stimulus_id,
              table |-> table @@ (stimulus_id :> InsertedRow(stimulus))]

get_stimulus(table, stimulus_id) ==
    IF stimulus_id \in DOMAIN table
    THEN Some(_row_to_stimulus(stimulus_id, table[stimulus_id]))
    ELSE None

\* a variant of the UPDATE that also sets the status back to draft
update_stimulus_as_draft(table, stimulus_id, stimulus) ==
    IF stimulus_id \in DOMAIN table
    THEN [table EXCEPT ![stimulus_id] =
            [@ EXCEPT !.status = "draft",
                      !.music = stimulus.music,
                      !.voice = [stimulus.voice EXCEPT !.speaker_boost = IF @ THEN 1 ELSE 0],
                      !.text = [f \in DOMAIN stimulus.text \ {"target_words"} |->
                                  stimulus.text[f]],
                      !.mix = stimulus.mix,
                      !.prosody = stimulus.prosody,
                      !.notes = stimulus.notes]]
    ELSE table

update_stimulus(table, stimulus_id, stimulus) ==
    IF stimulus_id \in DOMAIN table
    THEN [table EXCEPT ![stimulus_id] =
            [@ EXCEPT !.music = InsertedRow(stimulus).music,
                      !.voice = InsertedRow(stimulus).voice,
                      !.text = InsertedRow(stimulus).text,
                      !.mix = InsertedRow(stimulus).mix,
                      !.prosody = InsertedRow(stimulus).prosody,
                      !.notes = InsertedRow(stimulus).notes]]
    ELSE table

\* Python's truth value of an Optional[str]
Truthy(o) == o # None /\ Get(o) # <<>>

\* a variant that writes the status column alone, whatever else is passed
update_status_column_only(table, stimulus_id, status, audio_filename, duration_ms) ==
    IF stimulus_id \notin DOMAIN table THEN table
    ELSE [table EXCEPT ![stimulus_id] = [@ EXCEPT !.status = status]]

update_stimulus_status(table, stimulus_id, status, audio_filename, duration_ms) ==
    IF stimulus_id \notin DOMAIN table THEN table
    ELSE IF Truthy(audio_filename)
    THEN [table EXCEPT ![stimulus_id] =
            [@ EXCEPT !.status = status,
                      !.audio_filename = audio_filename,
                      !.duration_ms = duration_ms]]
    ELSE [table EXCEPT ![stimulus_id] = [@ EXCEPT !.status = status]]

delete_stimulus(table, stimulus_id) ==
    [id \in DOMAIN table \ {stimulus_id} |-> table[id]]

(***************************************************************************)
(* Naming utilities (src/app/utils/naming.py).                             *)
(***************************************************************************)
\* \w of the regular expression: letters, digits and the underscore
IsWordChar(c) == c \notin {" ", ",", "-", ".", "/", "!"}

\* re.sub(r"[^\w\s\-.]", "", name)
RECURSIVE DropSpecial(_)
DropSpecial(s) ==
    IF s = <<>> THEN <<>>
    ELSE IF IsWordChar(s[1]) \/ IsSpace(s[1]) \/ s[1] \in {"-", "."}
         THEN <<s[1]>> \o DropSpecial(Tail(s))
         ELSE DropSpecial(Tail(s))

\* re.sub(r"\s+", "_", name) followed by re.sub(r"_+", "_", name)
RECURSIVE SquashUnderscores(_)
SquashUnderscores(s) ==
    IF s = <<>> THEN <<>>
    ELSE LET c == IF IsSpace(s[1]) THEN "_" ELSE s[1]
             rest == SquashUnderscores(Tail(s))
         IN  IF c = "_" /\ rest # <<>> /\ rest[1] = "_" THEN rest ELSE <<c>> \o rest

RECURSIVE StripUnderscores(_)
StripUnderscores(s) ==
    IF s # <<>> /\ s[1] = "_" THEN StripUnderscores(Tail(s))
    ELSE IF s # <<>> /\ s[Len(s)] = "_" THEN StripUnderscores(SubSeq(s, 1, Len(s) - 1))
    ELSE s

sanitize_filename(name) == StripUnderscores(SquashUnderscores(DropSpecial(name)))

generate_output_filename(stimulus_id) ==
    sanitize_filename(stimulus_id) \o <<".", "m", "p", "3">>


(***************************************************************************)
(* State.                                                                  *)
(*   stimuli   the stimuli table of the catalog database                   *)
(*   outputs   the file names present in OUTPUTS_DIR                       *)
(*   run       per request handler, the generation request it is serving:  *)
(*             its position, its local variables, the events of the run in *)
(*             order, and the response once it is formed                   *)
(*   reply     the response to the last request outside generation        *)
(*   templates the templates table of the catalog database                 *)
(*   uploads   the files under UPLOADED_MUSIC_DIR, by folder and name      *)
(*   duck      the loop of _duck_music_to_voice over one music track       *)
(*   synth     the attempts of _synth_chunk for one chunk of text          *)
(*   conn      the connection scope of get_db and the database file        *)
(***************************************************************************)
VARIABLES stimuli, outputs, run, reply, templates, uploads, prosody_dir, tmp_dir,
          duck, synth, conn

catVars == <<stimuli, outputs, run>>

vars == <<stimuli, outputs, run, reply, templates, uploads, prosody_dir, tmp_dir,
          duck, synth, conn>>

\* the ducking loop, the speech request and the connection scope
signalVars == <<duck, synth, conn>>

\* the files of the prosody directory, the temporary files and the audio work
audioVars == <<prosody_dir, tmp_dir, signalVars>>

\* the variables the catalog operations leave alone
nonCatVars == <<reply, templates, uploads, audioVars>>

(***************************************************************************)
(* SpecCatalog: the stimuli router and the generate router over one        *)
(* catalog, with two request handlers running generation concurrently.     *)
(***************************************************************************)
Handlers == {1, 2}

IdUniverse(max_seq) == {StimId(n) : n \in 1..max_seq}

\* ids a caller supplies
SuppliedIds == {StimId(1)}

\* the files under ASSETS_DIR/music/tracks (bundled, read-only)
MusicTracks == {"calm.mp3"}

Narration == [speech_text |-> "Hello."]

\* request bodies: narration over a music bed with prosody transfer; a track
\* that is not in the tracks directory; no narration text
FullBody ==
    [text |-> Narration, voice |-> [voice_id |-> "v1"],
     music |-> [track |-> "calm.mp3"],
     prosody |-> [reference |-> "great_dictator", intensity |-> 30]]

MissingTrackBody ==
    [text |-> Narration, voice |-> [voice_id |-> "v1"],
     music |-> [track |-> "gone.mp3"]]

NoTextBody == [voice |-> [voice_id |-> "v1"]]

\* the duration the mixer reports
Durations == {1500}

NoResponse == [http |-> 0, status |-> ""]

IdleRun ==
    [pc |-> "idle", kind |-> "", id |-> <<>>, save_to_db |-> FALSE, params |-> None,
     voice_path |-> None, output_filename |-> None, duration_ms |-> None,
     log |-> <<>>, response |-> NoResponse]

\* what a generation run reads of the stimulus it was given
GenerationParams(stimulus) ==
    [music |-> stimulus.music, voice |-> stimulus.voice, text |-> stimulus.text,
     mix |-> stimulus.mix, prosody |-> stimulus.prosody]

NoReply == [op |-> "", http |-> 0, body |-> <<>>]

Reply(op, http, body) == [op |-> op, http |-> http, body |-> body]

\* no music is being ducked
NoDuck == [pc |-> "idle"]

\* no chunk is being synthesised
NoSynth == [pc |-> "idle"]

\* no connection scope has been entered
NoConn == [pc |-> "idle"]

SignalInit ==
    /\ duck = NoDuck
    /\ synth = NoSynth
    /\ conn = NoConn

\* nothing has been asked, saved as a template or uploaded; no prosody
\* reference and no temporary file
RestInit ==
    /\ SignalInit
    /\ reply = NoReply
    /\ templates = <<>>
    /\ uploads = <<>>
    /\ prosody_dir = <<>>
    /\ tmp_dir = <<>>

CatalogInit ==
    /\ stimuli = <<>>
    /\ outputs = {}
    /\ run = [h \in Handlers |-> IdleRun]
    /\ RestInit

(***************************************************************************)
(* Stimuli router (src/app/routers/stimuli.py).                            *)
(***************************************************************************)
create_new_stimulus(body, id) ==
    LET stimulus_id == IdOrNext(stimuli, id)
        stimulus == [ParseStimulusCreate(body) EXCEPT !.id = Some(stimulus_id)]
    IN  /\ stimuli' = IF get_stimulus(stimuli, stimulus_id) # None
                      THEN stimuli
                      ELSE create_stimulus(stimuli, stimulus).table
        /\ UNCHANGED <<outputs, run>>
        /\ UNCHANGED nonCatVars

update_stimulus_by_id(stimulus_id, body) ==
    /\ stimuli' = IF get_stimulus(stimuli, stimulus_id) = None
                  THEN stimuli
                  ELSE update_stimulus(stimuli, stimulus_id, ParseStimulusCreate(body))
    /\ UNCHANGED <<outputs, run>>
    /\ UNCHANGED nonCatVars

delete_stimulus_by_id(stimulus_id) ==
    /\ stimuli' = IF get_stimulus(stimuli, stimulus_id) = None
                  THEN stimuli
                  ELSE delete_stimulus(stimuli, stimulus_id)
    /\ UNCHANGED <<outputs, run>>
    /\ UNCHANGED nonCatVars

\* GET /stimuli/next-id
get_next_id ==
    /\ reply' = Reply("next_id", 200, get_next_stimulus_id(stimuli))
    /\ UNCHANGED <<catVars, templates, uploads, audioVars>>

\* GET /stimuli/{stimulus_id}
get_stimulus_by_id(stimulus_id) ==
    LET stimulus == get_stimulus(stimuli, stimulus_id)
    IN  /\ reply' = IF stimulus = None THEN Reply("get", 404, stimulus_id)
                    ELSE Reply("get", 200, Get(stimulus))
        /\ UNCHANGED <<catVars, templates, uploads, audioVars>>

DUPLICATED_FROM ==
    <<"D", "u", "p", "l", "i", "c", "a", "t", "e", "d", " ", "f", "r", "o", "m", " ">>

duplicate_stimulus(stimulus_id, new_id) ==
    LET existing == get_stimulus(stimuli, stimulus_id)
        new_stimulus ==
            [id |-> Some(IdOrNext(stimuli, new_id)),
             music |-> Get(existing).music, voice |-> Get(existing).voice,
             text |-> Get(existing).text, mix |-> Get(existing).mix,
             prosody |-> Get(existing).prosody,
             notes |-> DUPLICATED_FROM \o stimulus_id]
        created == create_stimulus(stimuli, new_stimulus)
    IN  /\ IF existing = None
           THEN UNCHANGED stimuli
           ELSE stimuli' = created.table
        /\ UNCHANGED <<outputs, run>>
        /\ UNCHANGED nonCatVars

(***************************************************************************)
(* Generate router (src/app/routers/generate.py).  A run is a sequence of  *)
(* steps; every step is one database transaction or one call of a service  *)
(* (text-to-speech, prosody transfer, mixing), whose outcome is the        *)
(* environment's choice.  run[h].log lists the events of the run in order. *)
(***************************************************************************)
\* a request is taken by the first handler that is free
Free(h) ==
    /\ run[h].pc = "idle"
    /\ \A g \in Handlers : g < h => run[g].pc # "idle"

\* the handler has formed its response; its locals are gone
Respond(r, http, status, event) ==
    [IdleRun EXCEPT !.pc = "done", !.kind = r.kind, !.id = r.id,
                    !.save_to_db = r.save_to_db, !.log = r.log \o event,
                    !.response = [http |-> http, status |-> status]]

ProsodyRequested(params) ==
    params.prosody.reference # "none" /\ params.prosody.intensity > 0

\* generate_stimulus, up to the try block: load and validate the stimulus
generate_stimulus(h, stimulus_id) ==
    LET stimulus == get_stimulus(stimuli, stimulus_id)
        r == [IdleRun EXCEPT !.kind = "stored", !.id = stimulus_id, !.save_to_db = TRUE]
    IN  /\ Free(h)
        /\ run' = [run EXCEPT ![h] =
                     IF stimulus = None THEN Respond(r, 404, "", <<>>)
                     ELSE IF Get(stimulus).text.speech_text = ""
                             \/ Get(stimulus).voice.voice_id = ""
                     THEN Respond(r, 400, "", <<>>)
                     ELSE [r EXCEPT !.pc = "mark",
                                    !.params = Some(GenerationParams(Get(stimulus)))]]
        /\ UNCHANGED <<stimuli, outputs>>
        /\ UNCHANGED nonCatVars

\* generate_direct, its first line: `request.stimulus_id or get_next_stimulus_id()`
generate_direct(h, body, id, save_to_db) ==
    LET stimulus_id == IdOrNext(stimuli, id)
    IN  /\ Free(h)
        /\ run' = [run EXCEPT ![h] =
                     [IdleRun EXCEPT !.pc = IF save_to_db THEN "create" ELSE "synth",
                                     !.kind = "direct", !.id = stimulus_id,
                                     !.save_to_db = save_to_db,
                                     !.params = Some(GenerationParams(
                                                       ParseStimulusCreate(body)))]]
        /\ UNCHANGED <<stimuli, outputs>>
        /\ UNCHANGED nonCatVars

\* generate_direct with save_to_db: create_stimulus(stimulus)
DirectCreate(h) ==
    LET p == Get(run[h].params)
        stimulus == [id |-> Some(run[h].id), music |-> p.music, voice |-> p.voice,
                     text |-> p.text, mix |-> p.mix, prosody |-> p.prosody,
                     notes |-> StimulusCreate.notes]
        created == create_stimulus(stimuli, stimulus)
    IN  /\ run[h].pc = "create"
        /\ stimuli' = created.table
        /\ run' = [run EXCEPT
                     ![h].pc = IF created.raised THEN "except" ELSE "mark",
                     ![h].log = IF created.raised THEN <<"error">> ELSE <<"created">>]
        /\ UNCHANGED outputs
        /\ UNCHANGED nonCatVars

\* update_stimulus_status(stimulus_id, "generating")
MarkGenerating(h) ==
    /\ run[h].pc = "mark"
    /\ stimuli' = update_stimulus_status(stimuli, run[h].id, "generating", None, None)
    /\ run' = [run EXCEPT ![h].pc = "synth", ![h].log = Append(@, "generating")]
    /\ UNCHANGED outputs
    /\ UNCHANGED nonCatVars

\* step 1: synthesize_speech returns the path of a new file, or raises
Synthesize(h, ok) ==
    /\ run[h].pc = "synth"
    /\ run' = [run EXCEPT
                 ![h].pc = IF ~ok THEN "except"
                           ELSE IF ProsodyRequested(Get(run[h].params)) THEN "prosody"
                           ELSE "mix",
                 ![h].voice_path = IF ok THEN Some("tts.wav") ELSE None,
                 ![h].log = @ \o (IF ok THEN <<"synth">> ELSE <<"synth", "error">>)]
    /\ UNCHANGED <<stimuli, outputs>>
    /\ UNCHANGED nonCatVars

\* step 2: apply_prosody returns the path of a new file or its input path, or
\* raises (the extraction of the reference profile is not guarded)
ProsodyOutcomes == {"transferred", "unchanged", "raised"}

ApplyProsody(h, outcome) ==
    /\ run[h].pc = "prosody"
    /\ run' = [run EXCEPT
                 ![h].pc = IF outcome = "raised" THEN "except" ELSE "mix",
                 ![h].voice_path = IF outcome = "transferred" THEN Some("prosody.wav")
                                   ELSE @,
                 ![h].log = @ \o (IF outcome = "raised" THEN <<"prosody", "error">>
                                  ELSE <<"prosody">>)]
    /\ UNCHANGED <<stimuli, outputs>>
    /\ UNCHANGED nonCatVars

\* a variant of step 3 that goes on to the final write although mixing raised
MixErrorSwallowed(h, ok, duration_ms) ==
    /\ run[h].pc = "mix"
    /\ run[h].voice_path # None
    /\ run' = [run EXCEPT
                 ![h].pc = "persist",
                 ![h].output_filename = Some(generate_output_filename(run[h].id)),
                 ![h].duration_ms = Some(duration_ms),
                 ![h].log = @ \o (IF ok THEN <<"mix">> ELSE <<"mix", "error">>)]
    /\ outputs' = IF ok THEN outputs \cup {generate_output_filename(run[h].id)}
                  ELSE outputs
    /\ UNCHANGED stimuli
    /\ UNCHANGED nonCatVars

\* step 3: the track is looked up under MUSIC_DIR; mix_audio or mix_voice_only
\* writes the output file and returns its duration, or raises
Mix(h, ok, duration_ms) ==
    LET track == Get(run[h].params).music.track
        output_filename == generate_output_filename(run[h].id)
        missing == track # "" /\ track \notin MusicTracks
        done == ok /\ ~missing
    IN  /\ run[h].pc = "mix"
        /\ run[h].voice_path # None
        /\ run' = [run EXCEPT
                     ![h].pc = IF done THEN "persist" ELSE "except",
                     ![h].output_filename = Some(output_filename),
                     ![h].duration_ms = IF done THEN Some(duration_ms) ELSE None,
                     ![h].log = @ \o (IF missing THEN <<"error">>
                                      ELSE IF ok THEN <<"mix">> ELSE <<"mix", "error">>)]
        /\ outputs' = IF done THEN outputs \cup {output_filename} ELSE outputs
        /\ UNCHANGED stimuli
        /\ UNCHANGED nonCatVars

\* update_stimulus_status(stimulus_id, "generated", output_filename, duration_ms)
\* and the response
Persist(h) ==
    /\ run[h].pc = "persist"
    /\ stimuli' = IF run[h].save_to_db
                  THEN update_stimulus_status(stimuli, run[h].id, "generated",
                                              run[h].output_filename, run[h].duration_ms)
                  ELSE stimuli
    /\ run' = [run EXCEPT ![h] = Respond(run[h], 200, "generated", <<"generated">>)]
    /\ UNCHANGED outputs
    /\ UNCHANGED nonCatVars

\* a variant of the exception handler that answers without the status write
ExceptWithoutStatus(h) ==
    /\ run[h].pc = "except"
    /\ run' = [run EXCEPT ![h] = Respond(run[h], 200, "failed", <<"failed">>)]
    /\ UNCHANGED <<stimuli, outputs>>
    /\ UNCHANGED nonCatVars

\* the handler of `except Exception`: update_stimulus_status(stimulus_id, "failed")
\* and the response
Except(h) ==
    /\ run[h].pc = "except"
    /\ stimuli' = IF run[h].save_to_db
                  THEN update_stimulus_status(stimuli, run[h].id, "failed", None, None)
                  ELSE stimuli
    /\ run' = [run EXCEPT ![h] = Respond(run[h], 200, "failed", <<"failed">>)]
    /\ UNCHANGED outputs
    /\ UNCHANGED nonCatVars

\* the response is sent and the handler is free again
Return(h) ==
    /\ run[h].pc = "done"
    /\ run' = [run EXCEPT ![h] = IdleRun]
    /\ UNCHANGED <<stimuli, outputs>>
    /\ UNCHANGED nonCatVars

OptionalIds == {None} \cup {Some(id) : id \in SuppliedIds}

\* the id a request without an id would be given is one of `ids`
Admits(ids, id) == IdOrNext(stimuli, id) \in ids

\* one step of the catalog: handlers H serve generation requests, the ids in
\* use stay within U, and request bodies are drawn from B
CatalogNext(H, U, B) ==
    \/ \E body \in B, id \in OptionalIds :
          Admits(U, id) /\ create_new_stimulus(body, id)
    \/ \E id \in U, body \in B : update_stimulus_by_id(id, body)
    \/ \E id \in U : delete_stimulus_by_id(id)
    \/ \E id \in U, new_id \in OptionalIds :
          Admits(U, new_id) /\ duplicate_stimulus(id, new_id)
    \/ \E h \in H, id \in U : generate_stimulus(h, id)
    \/ \E h \in H, body \in {b \in B : "text" \in DOMAIN b},
          id \in OptionalIds, save_to_db \in BOOLEAN :
            Admits(U, id) /\ generate_direct(h, body, id, save_to_db)
    \/ \E h \in H : DirectCreate(h)
    \/ \E h \in H : MarkGenerating(h)
    \/ \E h \in H, ok \in BOOLEAN : Synthesize(h, ok)
    \/ \E h \in H, outcome \in ProsodyOutcomes : ApplyProsody(h, outcome)
    \/ \E h \in H, ok \in BOOLEAN, d \in Durations : Mix(h, ok, d)
    \/ \E h \in H : Persist(h)
    \/ \E h \in H : Except(h)
    \/ \E h \in H : Return(h)

\* two handlers race over the ids up to MaxRaceSeq
NextCatalog ==
    CatalogNext(Handlers, IdUniverse(MaxRaceSeq), {FullBody, NoTextBody})

SpecCatalog == CatalogInit /\ [][NextCatalog]_vars

\* one handler serves the ids up to MaxSeq
NextSerial ==
    CatalogNext({1}, IdUniverse(MaxSeq), {FullBody, MissingTrackBody})

SpecSerial == CatalogInit /\ [][NextSerial]_vars

(***************************************************************************)
(* SpecNextId: GET /stimuli/next-id asked of a catalog holding any of the  *)
(* ids a caller may have supplied.                                         *)
(***************************************************************************)
\* sequence numbers of the ids in the catalog
NextIdSeqs == {1, 2, 7, 9, 10, 999, 1000}

PlainRow == InsertedRow(ParseStimulusCreate(NoTextBody))

NextIdInit ==
    /\ stimuli \in {[id \in {StimId(n) : n \in seqs} |-> PlainRow] :
                      seqs \in SUBSET NextIdSeqs}
    /\ outputs = {}
    /\ run = [h \in Handlers |-> IdleRun]
    /\ RestInit

NextNextId == get_next_id

SpecNextId == NextIdInit /\ [][NextNextId]_vars

(***************************************************************************)
(* SpecRoundTrip: stimuli created from bodies that give a voice id and     *)
(* nothing else, and read back.                                            *)
(***************************************************************************)
VoiceIds == {"v1", "v2", "v3"}

VoiceOnlyBodies == {[voice |-> [voice_id |-> v]] : v \in VoiceIds}

NextRoundTrip ==
    \/ \E body \in VoiceOnlyBodies, id \in OptionalIds :
          Admits(IdUniverse(MaxSeq), id) /\ create_new_stimulus(body, id)
    \/ \E id \in IdUniverse(MaxSeq) : delete_stimulus_by_id(id)
    \/ \E id \in IdUniverse(MaxSeq) : get_stimulus_by_id(id)

SpecRoundTrip == CatalogInit /\ [][NextRoundTrip]_vars

(***************************************************************************)
(* SpecTemplates: the templates router (src/app/routers/templates.py) over *)
(* the built-in templates and the custom templates of the database.  A     *)
(* template row is held by its name.                                       *)
(***************************************************************************)
DEFAULT_TEMPLATES == {"chaplin_style", "calm_meditation", "cosmic_wonder"}

\* the values str(uuid.uuid4())[:8] takes
TemplateTokens == {"0a1b2c3d", "4e5f6a7b", "89abcdef"}

TemplateNames == {"Soft", "Loud"}

\* the ids a caller asks for
TemplateIds == DEFAULT_TEMPLATES \cup TemplateTokens \cup {"no_such_id"}

\* create_template: the INSERT raises IntegrityError when the id is present
create_template(table, template_id, name) ==
    IF template_id \in DOMAIN table
    THEN [raised |-> TRUE, table |-> table]
    ELSE [raised |-> FALSE, table |-> table @@ (template_id :> [name |-> name])]

get_template(table, template_id) ==
    IF template_id \in DOMAIN table
    THEN Some([id |-> template_id, name |-> table[template_id].name])
    ELSE None

\* delete_template: the table after the DELETE, and whether a row went
delete_template(table, template_id) ==
    [success |-> template_id \in DOMAIN table,
     table |-> [id \in DOMAIN table \ {template_id} |-> table[id]]]

\* the answer of GET /templates/{template_id}
TemplateLookup(table, template_id) ==
    IF template_id \in DEFAULT_TEMPLATES
    THEN Reply("get_template", 200, [id |-> template_id, is_default |-> TRUE])
    ELSE IF get_template(table, template_id) # None
    THEN Reply("get_template", 200, [id |-> template_id, is_default |-> FALSE])
    ELSE Reply("get_template", 404, [id |-> template_id, is_default |-> FALSE])

get_template_by_id(template_id) ==
    /\ reply' = TemplateLookup(templates, template_id)
    /\ UNCHANGED <<catVars, templates, uploads, audioVars>>

create_new_template(name, token) ==
    LET created == create_template(templates, token, name)
    IN  /\ templates' = created.table
        /\ reply' = Reply("create_template", IF created.raised THEN 500 ELSE 200, token)
        /\ UNCHANGED <<catVars, uploads, audioVars>>

\* a variant of the DELETE handler without the check of the built-in ids
delete_template_unguarded(template_id) ==
    LET deleted == delete_template(templates, template_id)
    IN  /\ templates' = deleted.table
        /\ reply' = Reply("delete_template", IF deleted.success THEN 200 ELSE 404,
                          template_id)
        /\ UNCHANGED <<catVars, uploads, audioVars>>

delete_template_by_id(template_id) ==
    LET deleted == delete_template(templates, template_id)
    IN  /\ IF template_id \in DEFAULT_TEMPLATES
           THEN /\ reply' = Reply("delete_template", 400, template_id)
                /\ UNCHANGED templates
           ELSE /\ templates' = deleted.table
                /\ reply' = Reply("delete_template",
                                  IF deleted.success THEN 200 ELSE 404, template_id)
        /\ UNCHANGED <<catVars, uploads, audioVars>>

NextTemplates ==
    \/ \E name \in TemplateNames, token \in TemplateTokens :
          create_new_template(name, token)
    \/ \E id \in TemplateIds : get_template_by_id(id)
    \/ \E id \in TemplateIds : delete_template_by_id(id)

SpecTemplates == CatalogInit /\ [][NextTemplates]_vars

(***************************************************************************)
(* SpecExport: GET /export/batch (src/app/routers/export.py) asked of a    *)
(* catalog of drafts and generated stimuli.  A file of OUTPUTS_DIR may     *)
(* have been removed outside the application.                              *)
(***************************************************************************)
\* the highest sequence number of a stimulus id in the exported catalog
MaxExportSeq == 2

ExportIds == IdUniverse(MaxExportSeq)

\* an id that is in no catalog
UnknownId == StimId(MaxExportSeq + 1)

GeneratedRow(id) ==
    update_stimulus_status(id :> PlainRow, id, "generated",
                           Some(generate_output_filename(id)), Some(1500))[id]

ExportInit ==
    /\ stimuli \in {[id \in DOMAIN kinds |->
                       IF kinds[id] = "draft" THEN PlainRow ELSE GeneratedRow(id)] :
                    kinds \in UNION {[ids -> {"draft", "generated"}] :
                                        ids \in SUBSET ExportIds}}
    /\ outputs \in SUBSET {generate_output_filename(id) : id \in ExportIds}
    /\ run = [h \in Handlers |-> IdleRun]
    /\ RestInit

\* the stimulus_ids query strings asked
ExportRequests ==
    { <<>>,
      <<" ">>,
      <<",">>,
      StimId(1),
      StimId(2) \o <<",">>,
      StimId(1) \o <<",">> \o StimId(1),
      StimId(1) \o <<",">> \o StimId(2),
      StimId(1) \o <<",", " ">> \o UnknownId \o <<" ", ",">> \o StimId(2) }

AUDIO_DIR == <<"a", "u", "d", "i", "o", "/">>

METADATA_JSON == <<"m", "e", "t", "a", "d", "a", "t", "a", ".", "j", "s", "o", "n">>

\* a variant of the audio step that does not look for the file
ExportAudioUnchecked(stimulus, files, include_audio) ==
    IF include_audio /\ stimulus.audio_url # None
    THEN LET parts == Split(Get(stimulus.audio_url), "/")
         IN  <<AUDIO_DIR \o parts[Len(parts)]>>
    ELSE <<>>

\* the entries one stimulus adds under audio/
ExportAudio(stimulus, files, include_audio) ==
    IF include_audio /\ stimulus.audio_url # None
    THEN LET parts == Split(Get(stimulus.audio_url), "/")
             audio_filename == parts[Len(parts)]
         IN  IF audio_filename \in files THEN <<AUDIO_DIR \o audio_filename>> ELSE <<>>
    ELSE <<>>

\* the loop over the requested ids: the metadata collected and the entries
\* written, in order
RECURSIVE ExportLoop(_, _, _, _)
ExportLoop(table, files, ids, include_audio) ==
    IF ids = <<>> THEN [all_metadata |-> <<>>, entries |-> <<>>]
    ELSE LET stimulus == get_stimulus(table, Head(ids))
             rest == ExportLoop(table, files, Tail(ids), include_audio)
         IN  IF stimulus = None THEN rest
             ELSE [all_metadata |-> <<Get(stimulus).id>> \o rest.all_metadata,
                   entries |-> ExportAudio(Get(stimulus), files, include_audio)
                               \o rest.entries]

export_batch(stimulus_ids, include_audio) ==
    LET parts == Split(stimulus_ids, ",")
        ids == [i \in 1..Len(parts) |-> Strip(parts[i])]
        done == ExportLoop(stimuli, outputs, ids, include_audio)
        request == [stimulus_ids |-> stimulus_ids, include_audio |-> include_audio]
    IN  /\ reply' = IF ids = <<>>
                    THEN Reply("export_batch", 400,
                               [request |-> request, total |-> 0, stimuli |-> <<>>,
                                entries |-> <<>>])
                    ELSE Reply("export_batch", 200,
                               [request |-> request,
                                total |-> Len(done.all_metadata),
                                stimuli |-> done.all_metadata,
                                entries |-> done.entries \o <<METADATA_JSON>>])
        /\ UNCHANGED <<catVars, templates, uploads, audioVars>>

NextExport ==
    \E stimulus_ids \in ExportRequests, include_audio \in BOOLEAN :
        export_batch(stimulus_ids, include_audio)

SpecExport == ExportInit /\ [][NextExport]_vars

(***************************************************************************)
(* SpecUpload: POST /music/upload and DELETE /music/track/{track_id}       *)
(* (src/app/routers/music.py), one request after the other.  `uploads` is  *)
(* the tree under UPLOADED_MUSIC_DIR: the content of each file, by its     *)
(* folder and name.                                                        *)
(***************************************************************************)
\* the most files kept under UPLOADED_MUSIC_DIR
MaxFiles == 3

ToLower(c) ==
    CASE c = "M" -> "m"
      [] c = "P" -> "p"
      [] c = "A" -> "a"
      [] c = "T" -> "t"
      [] c = "X" -> "x"
      [] OTHER -> c

\* str.lower()
Lower(s) == [i \in 1..Len(s) |-> ToLower(s[i])]

\* Path(p).name: the final component of the path
PathName(p) ==
    LET parts == SelectSeq(Split(p, "/"), LAMBDA part : part # <<>>)
    IN  IF parts = <<>> THEN <<>> ELSE parts[Len(parts)]

\* the position of the last dot of a name that begins a suffix, 0 if none:
\* a dot that leads or ends the name begins no suffix
SuffixAt(name) ==
    LET dots == {i \in 1..Len(name) : name[i] = "."}
        last == CHOOSE i \in dots : \A j \in dots : j <= i
    IN  IF dots # {} /\ 1 < last /\ last < Len(name) THEN last ELSE 0

\* Path(p).suffix
PathSuffix(p) ==
    LET name == PathName(p)
    IN  IF SuffixAt(name) = 0 THEN <<>> ELSE SubSeq(name, SuffixAt(name), Len(name))

\* Path(p).stem
PathStem(p) ==
    LET name == PathName(p)
    IN  IF SuffixAt(name) = 0 THEN name ELSE SubSeq(name, 1, SuffixAt(name) - 1)

ALLOWED_EXTENSIONS ==
    { <<".", "m", "p", "3">>, <<".", "w", "a", "v">>, <<".", "m", "4", "a">>, <<".", "o", "g", "g">>, <<".", "f", "l", "a", "c">> }

\* the default tracks, under MUSIC_DIR
DefaultTracks == {[base |-> "assets", dir |-> <<>>, name |-> <<"c", "a", "l", "m", ".", "m", "p", "3">>]}

UploadedTracks(tree) ==
    {[base |-> "uploads", dir |-> path.dir, name |-> path.name] : path \in DOMAIN tree}

\* the 12 hexadecimal digits of the MD5 digest of the path, taken to differ
\* for the different paths of one library
generate_track_id(filepath) == <<"md5", filepath>>

scan_music_library(tree) ==
    {[id |-> generate_track_id(track), full_path |-> track,
      is_uploaded |-> track.base = "uploads"] : track \in DefaultTracks \cup UploadedTracks(tree)}

\* f"{stem}_{counter}{ext}"
Numbered(stem, counter, ext) == stem \o <<"_">> \o DigitsOf(counter) \o ext

\* the duplicate loop: the first of <stem>_<counter><ext>,
\* <stem>_<counter + 1><ext>, ... that does not exist in dest_dir
RECURSIVE HandleDuplicates(_, _, _, _, _)
HandleDuplicates(tree, dest_dir, stem, ext, counter) ==
    LET dest_path == [dir |-> dest_dir, name |-> Numbered(stem, counter, ext)]
    IN  IF dest_path \in DOMAIN tree
        THEN HandleDuplicates(tree, dest_dir, stem, ext, counter + 1)
        ELSE dest_path

\* a variant of the destination that does not handle duplicates
DestPathAsNamed(tree, dest_dir, stem, ext) == [dir |-> dest_dir, name |-> stem \o ext]

\* where the upload is written
DestPath(tree, dest_dir, stem, ext) ==
    LET dest_path == [dir |-> dest_dir, name |-> stem \o ext]
    IN  IF dest_path \in DOMAIN tree
        THEN HandleDuplicates(tree, dest_dir, stem, ext, 1)
        ELSE dest_path

\* `saved` is whether reading the upload and writing it went through; the
\* file is opened for writing before the upload is read
upload_music(filename, content, folder, saved) ==
    LET request == [filename |-> filename, folder |-> folder, content |-> content]
        ext == Lower(PathSuffix(filename))
        stem == sanitize_filename(PathStem(filename))
        dest_dir == IF folder # <<>> THEN sanitize_filename(folder) ELSE <<>>
        dest_path == DestPath(uploads, dest_dir, stem, ext)
    IN  /\ IF filename = <<>> \/ ext \notin ALLOWED_EXTENSIONS
           THEN /\ reply' = Reply("upload_music", 400, [request |-> request, path |-> None])
                /\ UNCHANGED uploads
           ELSE IF saved
           THEN /\ uploads' = (dest_path :> content) @@ uploads
                /\ reply' = Reply("upload_music", 200,
                                  [request |-> request, path |-> Some(dest_path)])
           ELSE /\ uploads' = (dest_path :> "") @@ uploads
                /\ reply' = Reply("upload_music", 500,
                                  [request |-> request, path |-> Some(dest_path)])
        /\ UNCHANGED <<catVars, templates, audioVars>>

delete_track(track_id) ==
    LET found == {track \in scan_music_library(uploads) : track.id = track_id}
        track == CHOOSE t \in found : TRUE
    IN  /\ IF found = {}
           THEN /\ reply' = Reply("delete_track", 404, track_id)
                /\ UNCHANGED uploads
           ELSE IF ~track.is_uploaded
           THEN /\ reply' = Reply("delete_track", 403, track_id)
                /\ UNCHANGED uploads
           ELSE /\ uploads' = [path \in DOMAIN uploads \
                                  {[dir |-> track.full_path.dir,
                                    name |-> track.full_path.name]} |-> uploads[path]]
                /\ reply' = Reply("delete_track", 200, track_id)
        /\ UNCHANGED <<catVars, templates, audioVars>>

\* the uploads made: names that sanitize to one stem and extension, a name
\* that is itself numbered, a type that is not allowed, no name
UploadNames ==
    { <<>>, <<"a", ".", "m", "p", "3">>, <<"a", "!", ".", "M", "P", "3">>, <<"a", "_", "1", ".", "m", "p", "3">>, <<"a", ".", "t", "x", "t">> }

UploadFolders == {<<>>, <<"f">>}

UploadContents == {"c1", "c2"}

TrackIdsAsked ==
    {generate_track_id(track) : track \in DefaultTracks \cup UploadedTracks(uploads)}
        \cup {generate_track_id([base |-> "uploads", dir |-> <<>>, name |-> <<>>])}

NextUpload ==
    \/ \E filename \in UploadNames, content \in UploadContents,
          folder \in UploadFolders, saved \in BOOLEAN :
          /\ Cardinality(DOMAIN uploads) < MaxFiles
          /\ upload_music(filename, content, folder, saved)
    \/ \E track_id \in TrackIdsAsked : delete_track(track_id)

SpecUpload == CatalogInit /\ [][NextUpload]_vars

(***************************************************************************)
(* Word budget (src/app/services/prompt.py).  A Python float is an IEEE    *)
(* double: a significand of at most 53 bits times a power of two, every    *)
(* operation rounded to the nearest such number, ties to the even          *)
(* significand.  A significand is a natural number kept as its limbs,      *)
(* lowest first; the numbers here are positive and far from the ends of    *)
(* the exponent range.                                                     *)
(***************************************************************************)
LimbBase == 16384

SignificandBits == 53

RECURSIVE Pow2(_)
Pow2(n) == IF n = 0 THEN 1 ELSE 2 * Pow2(n - 1)

RECURSIVE BigOf(_)
BigOf(n) == IF n = 0 THEN <<>> ELSE <<n % LimbBase>> \o BigOf(n \div LimbBase)

RECURSIVE BigToInt(_)
BigToInt(b) == IF b = <<>> THEN 0 ELSE b[1] + LimbBase * BigToInt(Tail(b))

RECURSIVE BigTrim(_)
BigTrim(b) ==
    IF b # <<>> /\ b[Len(b)] = 0 THEN BigTrim(SubSeq(b, 1, Len(b) - 1)) ELSE b

\* b * k + carry, for k below 2^16
RECURSIVE BigMulSmall(_, _, _)
BigMulSmall(b, k, carry) ==
    IF b = <<>> THEN BigOf(carry)
    ELSE LET t == b[1] * k + carry
         IN  <<t % LimbBase>> \o BigMulSmall(Tail(b), k, t \div LimbBase)

\* quotient and remainder of the limbs 1..i of b, behind the remainder r of
\* the higher limbs, by k below 2^16
RECURSIVE BigDivFrom(_, _, _, _)
BigDivFrom(b, k, i, r) ==
    IF i = 0 THEN [q |-> <<>>, r |-> r]
    ELSE LET t == r * LimbBase + b[i]
             rest == BigDivFrom(b, k, i - 1, t % k)
         IN  [q |-> Append(rest.q, t \div k), r |-> rest.r]

BigDivSmall(b, k) ==
    LET d == BigDivFrom(b, k, Len(b), 0)
    IN  [q |-> BigTrim(d.q), r |-> d.r]

RECURSIVE BitsOf(_)
BitsOf(n) == IF n = 0 THEN 0 ELSE 1 + BitsOf(n \div 2)

\* int.bit_length()
BigBits(b) ==
    IF BigTrim(b) = <<>> THEN 0
    ELSE LET t == BigTrim(b) IN 14 * (Len(t) - 1) + BitsOf(t[Len(t)])

BigIsOdd(b) == b # <<>> /\ b[1] % 2 = 1

RECURSIVE BigInc(_)
BigInc(b) ==
    IF b = <<>> THEN <<1>>
    ELSE IF b[1] + 1 < LimbBase THEN <<b[1] + 1>> \o Tail(b)
    ELSE <<0>> \o BigInc(Tail(b))

\* b * 2^s
RECURSIVE BigShl(_, _)
BigShl(b, s) ==
    IF s = 0 THEN b
    ELSE LET step == IF s < 14 THEN s ELSE 14
         IN  BigShl(BigMulSmall(b, Pow2(step), 0), s - step)

\* b \div 2^s, and whether a one was shifted out (or `sticky` was set)
RECURSIVE BigShr(_, _, _)
BigShr(b, s, sticky) ==
    IF s = 0 THEN [q |-> b, sticky |-> sticky]
    ELSE LET step == IF s < 14 THEN s ELSE 14
             d == BigDivSmall(b, Pow2(step))
         IN  BigShr(d.q, s - step, sticky \/ d.r # 0)

Double(significand, exponent) == [m |-> BigOf(significand), e |-> exponent]

\* the double nearest to b * 2^e, where `sticky` says that the exact value
\* lies above b * 2^e by less than 2^e
RoundNearestEven(b, e, sticky) ==
    LET s == BigBits(b) - SignificandBits
    IN  IF s <= 0 THEN [m |-> BigTrim(b), e |-> e]
        ELSE LET low == BigShr(b, s - 1, sticky)
                 top == BigDivSmall(low.q, 2).q
                 up == BigIsOdd(low.q) /\ (low.sticky \/ BigIsOdd(top))
             IN  [m |-> IF up THEN BigInc(top) ELSE top, e |-> e + s]

\* a / b of two ints, b below 2^16: the quotient carried to more than 53
\* bits, then rounded
IntTrueDiv(a, b) ==
    LET d == BigDivSmall(BigShl(BigOf(a), 70), b)
    IN  RoundNearestEven(d.q, -70, d.r # 0)

\* x * y, the significand of y below 2^16
FloatMul(x, y) ==
    RoundNearestEven(BigMulSmall(x.m, BigToInt(y.m), 0), x.e + y.e, FALSE)

\* x < y, both significands below 2^16
FloatLess(x, y) ==
    LET e == IF x.e < y.e THEN x.e ELSE y.e
    IN  BigToInt(x.m) * Pow2(x.e - e) < BigToInt(y.m) * Pow2(y.e - e)

\* the builtins max(a, b) and min(a, b): the first argument unless the
\* second is greater (smaller)
FloatMax(a, b) == IF FloatLess(a, b) THEN b ELSE a

FloatMin(a, b) == IF FloatLess(b, a) THEN b ELSE a

\* int(x) of a float that is not negative
FloatToInt(x) ==
    IF x.e >= 0 THEN BigToInt(BigShl(x.m, x.e))
    ELSE BigToInt(BigShr(x.m, 0 - x.e, FALSE).q)

IntMax(a, b) == IF a < b THEN b ELSE a

DEFAULT_TTS_WPM == 102

DEFAULT_SAFETY_FACTOR == Double(1, 0)

\* a variant that takes the crossfade out of the time for speech
target_words_less_crossfade(duration_ms, voice_speed, speech_entry_ms, crossfade_ms, base_wpm, safety_factor) ==
    LET speed == FloatMax(Double(1, -1), FloatMin(Double(2, 0), voice_speed))
        effective_duration_ms == IntMax(0, duration_ms - speech_entry_ms - crossfade_ms)
        effective_minutes == IntTrueDiv(effective_duration_ms, 60000)
        adjusted_wpm == FloatMul(Double(base_wpm, 0), speed)
        raw_words == FloatMul(effective_minutes, adjusted_wpm)
    IN  IntMax(10, FloatToInt(FloatMul(raw_words, safety_factor)))

calculate_target_words_adjusted(duration_ms, voice_speed, speech_entry_ms, crossfade_ms, base_wpm, safety_factor) ==
    LET speed == FloatMax(Double(1, -1), FloatMin(Double(2, 0), voice_speed))
        effective_duration_ms == IntMax(0, duration_ms - speech_entry_ms)
        effective_minutes == IntTrueDiv(effective_duration_ms, 60000)
        adjusted_wpm == FloatMul(Double(base_wpm, 0), speed)
        raw_words == FloatMul(effective_minutes, adjusted_wpm)
        target_words == FloatToInt(FloatMul(raw_words, safety_factor))
    IN  IntMax(10, target_words)

\* the arguments asked: tracks of no length up to six minutes, speeds and
\* safety factors in quarters, below and above the range of speeds
WordDurations == {0, 5000, 22000, 130000, 360000}

WordSpeeds == {Double(1, -2), Double(1, -1), Double(3, -2), Double(1, 0), Double(3, 0)}

WordEntries == {0, 3000, 400000}

WordCrossfades == {0, 2000}

WordRates == {DEFAULT_TTS_WPM, 150}

WordSafeties == {DEFAULT_SAFETY_FACTOR, Double(3, -2)}

TargetWordsAsked ==
    \E duration_ms \in WordDurations, voice_speed \in WordSpeeds,
       speech_entry_ms \in WordEntries, crossfade_ms \in WordCrossfades,
       base_wpm \in WordRates, safety_factor \in WordSafeties :
        /\ reply' = Reply("target_words", 200,
                          [duration_ms |-> duration_ms, voice_speed |-> voice_speed,
                           speech_entry_ms |-> speech_entry_ms,
                           crossfade_ms |-> crossfade_ms, base_wpm |-> base_wpm,
                           safety_factor |-> safety_factor,
                           target_words |->
                               calculate_target_words_adjusted(
                                   duration_ms, voice_speed, speech_entry_ms,
                                   crossfade_ms, base_wpm, safety_factor)])
        /\ UNCHANGED <<catVars, templates, uploads, audioVars>>

SpecWords == CatalogInit /\ [][TargetWordsAsked]_vars

(***************************************************************************)
(* Prosody references (src/app/services/prosody.py and                     *)
(* src/app/routers/prosody.py).  `prosody_dir` is the prosody directory:   *)
(* the content of each file by its name.  An audio file is known by what   *)
(* pitch analysis finds in it; a JSON file by the profile it holds.        *)
(***************************************************************************)
NONE_REFERENCE == <<"n", "o", "n", "e">>

GREAT_DICTATOR == <<"g", "r", "e", "a", "t", "_", "d", "i", "c", "t", "a", "t", "o", "r">>

PROFILE_JSON == <<"_", "p", "r", "o", "f", "i", "l", "e", ".", "j", "s", "o", "n">>

M4A == <<".", "m", "4", "a">>

MP3 == <<".", "m", "p", "3">>

WAV == <<".", "w", "a", "v">>

OGG == <<".", "o", "g", "g">>

PROSODY_EXTENSIONS == {MP3, WAV, M4A, OGG}

\* what extract_prosody returns when it fails, and an empty JSON object
ZeroProfile == [pitch_mean |-> 0, pitch_std |-> 0, id |-> <<>>, source_file |-> <<>>]

\* speech, a recording with one pitch throughout, a recording without pitch
Sounds == {"voiced", "monotone", "silent"}

Audio(sound) == [kind |-> "audio", sound |-> sound, profile |-> ZeroProfile]

Json(profile) == [kind |-> "json", sound |-> "", profile |-> profile]

WriteFile(dir, name, content) == (name :> content) @@ dir

Unlink(dir, name) == [n \in DOMAIN dir \ {name} |-> dir[n]]

\* pitch in Hz: mean and standard deviation over the voiced frames, 0 when
\* there is none or the file is no audio
extract_prosody(content) ==
    IF content.kind = "audio" /\ content.sound = "voiced"
    THEN [ZeroProfile EXCEPT !.pitch_mean = 180, !.pitch_std = 40]
    ELSE IF content.kind = "audio" /\ content.sound = "monotone"
    THEN [ZeroProfile EXCEPT !.pitch_mean = 180]
    ELSE ZeroProfile

_is_valid_profile(profile) == ~(profile.pitch_mean <= 0 \/ profile.pitch_std <= 0)

\* the cached profile, when there is a valid one; an invalid one is deleted
LoadCached(dir, profile_path) ==
    IF profile_path \in DOMAIN dir /\ dir[profile_path].kind = "json"
    THEN IF _is_valid_profile(dir[profile_path].profile)
         THEN [hit |-> TRUE, profile |-> dir[profile_path].profile, dir |-> dir]
         ELSE [hit |-> FALSE, profile |-> ZeroProfile, dir |-> Unlink(dir, profile_path)]
    ELSE [hit |-> FALSE, profile |-> ZeroProfile, dir |-> dir]

\* a variant of the extraction loop that caches and returns what it extracts
RECURSIVE ExtractBuiltinUnverified(_, _, _)
ExtractBuiltinUnverified(dir, profile_path, exts) ==
    IF exts = <<>> THEN [profile |-> None, dir |-> dir]
    ELSE LET audio_path == GREAT_DICTATOR \o Head(exts)
         IN  IF audio_path \in DOMAIN dir
             THEN LET profile == [extract_prosody(dir[audio_path]) EXCEPT
                                      !.source_file = audio_path, !.id = GREAT_DICTATOR]
                  IN  [profile |-> Some(profile),
                       dir |-> WriteFile(dir, profile_path, Json(profile))]
             ELSE ExtractBuiltinUnverified(dir, profile_path, Tail(exts))

\* for ext in [".m4a", ".mp3", ".wav", ".ogg"]: the first audio file of the
\* built-in reference whose extraction is valid
RECURSIVE ExtractBuiltin(_, _, _)
ExtractBuiltin(dir, profile_path, exts) ==
    IF exts = <<>> THEN [profile |-> None, dir |-> dir]
    ELSE LET audio_path == GREAT_DICTATOR \o Head(exts)
         IN  IF audio_path \in DOMAIN dir /\ _is_valid_profile(extract_prosody(dir[audio_path]))
             THEN LET profile == [extract_prosody(dir[audio_path]) EXCEPT
                                      !.source_file = audio_path, !.id = GREAT_DICTATOR]
                  IN  [profile |-> Some(profile),
                       dir |-> WriteFile(dir, profile_path, Json(profile))]
             ELSE ExtractBuiltin(dir, profile_path, Tail(exts))

\* for ext in ["", ".m4a", ".mp3", ".wav", ".ogg"]: the first file of a
\* custom reference with a valid cached profile or a valid extraction
RECURSIVE ExtractCustom(_, _, _)
ExtractCustom(dir, reference, exts) ==
    IF exts = <<>> THEN [profile |-> None, dir |-> dir]
    ELSE LET audio_path == reference \o Head(exts)
         IN  IF audio_path \notin DOMAIN dir THEN ExtractCustom(dir, reference, Tail(exts))
             ELSE LET profile_path == PathStem(audio_path) \o PROFILE_JSON
                      cached == LoadCached(dir, profile_path)
                      profile == [extract_prosody(dir[audio_path]) EXCEPT
                                      !.source_file = audio_path, !.id = reference]
                  IN  IF cached.hit THEN [profile |-> Some(cached.profile), dir |-> dir]
                      ELSE IF _is_valid_profile(profile)
                      THEN [profile |-> Some(profile),
                            dir |-> WriteFile(cached.dir, profile_path, Json(profile))]
                      ELSE ExtractCustom(cached.dir, reference, Tail(exts))

\* the profile returned, if any, and the directory left behind
get_prosody_profile(dir, reference) ==
    IF reference = NONE_REFERENCE THEN [profile |-> None, dir |-> dir]
    ELSE IF reference = GREAT_DICTATOR
    THEN LET profile_path == GREAT_DICTATOR \o PROFILE_JSON
             cached == LoadCached(dir, profile_path)
         IN  IF cached.hit THEN [profile |-> Some(cached.profile), dir |-> dir]
             ELSE ExtractBuiltin(cached.dir, profile_path, <<M4A, MP3, WAV, OGG>>)
    ELSE ExtractCustom(dir, reference, <<<<>>, M4A, MP3, WAV, OGG>>)

get_profile(reference_id) ==
    LET got == get_prosody_profile(prosody_dir, reference_id)
    IN  /\ prosody_dir' = got.dir
        /\ reply' = Reply("get_profile", IF got.profile = None THEN 404 ELSE 200,
                          [reference_id |-> reference_id, profile |-> got.profile])
        /\ UNCHANGED <<catVars, templates, uploads, tmp_dir, signalVars>>

\* the most audio files kept in the prosody directory
MaxReferences == 2

AudioFiles(dir) == {n \in DOMAIN dir : Lower(PathSuffix(n)) \in PROSODY_EXTENSIONS}

\* name.lower().replace(" ", "_")
SafeName(name) ==
    [i \in 1..Len(name) |-> IF ToLower(name[i]) = " " THEN "_" ELSE ToLower(name[i])]

\* the duplicate loop of the upload: the stem is that of the path tried last
RECURSIVE FreeReferencePath(_, _, _, _)
FreeReferencePath(dir, dest_path, ext, counter) ==
    IF dest_path \in DOMAIN dir
    THEN FreeReferencePath(dir, Numbered(PathStem(dest_path), counter, ext), ext,
                           counter + 1)
    ELSE dest_path

\* the upload saves the profile it extracted
CacheProfile(dir, profile_path, profile) == WriteFile(dir, profile_path, Json(profile))

\* `sound` is what the uploaded recording holds
upload_reference(filename, name, sound) ==
    LET request == [filename |-> filename, name |-> name, sound |-> sound]
        ext == Lower(PathSuffix(filename))
        dest_filename == IF name # <<>> THEN SafeName(name) \o ext ELSE filename
        dest_path == FreeReferencePath(prosody_dir, dest_filename, ext, 1)
        saved == WriteFile(prosody_dir, dest_path, Audio(sound))
        profile == [extract_prosody(saved[dest_path]) EXCEPT
                        !.source_file = dest_path, !.id = PathStem(dest_path)]
        profile_path == PathStem(dest_path) \o PROFILE_JSON
    IN  /\ IF filename = <<>> \/ ext \notin PROSODY_EXTENSIONS
           THEN /\ reply' = Reply("upload_reference", 400,
                                  [request |-> request, reference_id |-> <<>>,
                                   profile |-> None])
                /\ UNCHANGED prosody_dir
           ELSE /\ prosody_dir' = CacheProfile(saved, profile_path, profile)
                /\ reply' = Reply("upload_reference", 200,
                                  [request |-> request, reference_id |-> PathStem(dest_path),
                                   profile |-> Some(profile)])
        /\ UNCHANGED <<catVars, templates, uploads, tmp_dir, signalVars>>

\* the extensions are looked up in the order of a set of strings, which
\* differs from one start of the interpreter to the next
delete_reference(reference_id) ==
    LET found == {ext \in PROSODY_EXTENSIONS : reference_id \o ext \in DOMAIN prosody_dir}
        DeleteSidecar(dir, profile_path) ==
            IF profile_path \in DOMAIN dir THEN Unlink(dir, profile_path) ELSE dir
    IN  /\ IF reference_id = GREAT_DICTATOR
           THEN /\ reply' = Reply("delete_reference", 400, reference_id)
                /\ UNCHANGED prosody_dir
           ELSE IF found # {}
           THEN /\ \E ext \in found :
                     prosody_dir' = DeleteSidecar(Unlink(prosody_dir, reference_id \o ext),
                                                  reference_id \o PROFILE_JSON)
                /\ reply' = Reply("delete_reference", 200, reference_id)
           ELSE IF reference_id \in DOMAIN prosody_dir
           THEN /\ prosody_dir' = DeleteSidecar(Unlink(prosody_dir, reference_id),
                                                PathStem(reference_id) \o PROFILE_JSON)
                /\ reply' = Reply("delete_reference", 200, reference_id)
           ELSE /\ reply' = Reply("delete_reference", 404, reference_id)
                /\ UNCHANGED prosody_dir
        /\ UNCHANGED <<catVars, templates, uploads, tmp_dir, signalVars>>

\* the audio files in the orders the directory can list them
Listings(dir) ==
    LET files == AudioFiles(dir)
    IN  {order \in [1..Cardinality(files) -> files] :
           \A i, j \in 1..Cardinality(files) : i # j => order[i] # order[j]}

RECURSIVE preload_profiles(_, _)
preload_profiles(dir, listing) ==
    IF listing = <<>> THEN dir
    ELSE LET f == Head(listing)
             stem == PathStem(f)
             profile_path == stem \o PROFILE_JSON
             cached == LoadCached(dir, profile_path)
             profile == [extract_prosody(dir[f]) EXCEPT !.source_file = f, !.id = stem]
         IN  IF cached.hit THEN preload_profiles(dir, Tail(listing))
             ELSE IF _is_valid_profile(profile)
             THEN preload_profiles(WriteFile(cached.dir, profile_path, Json(profile)),
                                   Tail(listing))
             ELSE preload_profiles(cached.dir, Tail(listing))

preload_all_profiles ==
    /\ \E listing \in Listings(prosody_dir) :
          prosody_dir' = preload_profiles(prosody_dir, listing)
    /\ reply' = Reply("preload", 200, <<>>)
    /\ UNCHANGED <<catVars, templates, uploads, tmp_dir, signalVars>>

\* the directory as shipped or as left by an earlier version of the service:
\* the recording of the built-in reference and its cached profile, if any
BuiltinProfile ==
    [pitch_mean |-> 180, pitch_std |-> 40, id |-> GREAT_DICTATOR,
     source_file |-> GREAT_DICTATOR \o M4A]

ProsodyDirs ==
    {audio @@ cache :
        audio \in {<<>>} \cup {(GREAT_DICTATOR \o M4A) :> Audio(sound) :
                                  sound \in {"voiced", "silent"}},
        cache \in {<<>>} \cup {(GREAT_DICTATOR \o PROFILE_JSON) :> Json(profile) :
                                  profile \in {BuiltinProfile, ZeroProfile}}}

ProsodyInit ==
    /\ stimuli = <<>>
    /\ outputs = {}
    /\ run = [h \in Handlers |-> IdleRun]
    /\ reply = NoReply
    /\ templates = <<>>
    /\ uploads = <<>>
    /\ prosody_dir \in ProsodyDirs
    /\ SignalInit
    /\ tmp_dir = <<>>

\* the reference ids asked: no reference, the built-in one, custom ones by
\* stem and by file name, the files of the built-in one, one that is unknown
ReferenceIds ==
    { NONE_REFERENCE, GREAT_DICTATOR, <<"r", "e", "f">>, <<"r", "e", "f", ".", "m", "p", "3">>, GREAT_DICTATOR \o M4A,
      GREAT_DICTATOR \o PROFILE_JSON, <<"n", "o", "p", "e">> }

ReferenceFiles == { <<>>, <<"r", "e", "f", ".", "m", "p", "3">>, <<"r", "e", "f", ".", "t", "x", "t">> }

ReferenceNames == { <<>>, <<"A", " ", "a">> }

NextProsody ==
    \/ \E reference_id \in ReferenceIds : get_profile(reference_id)
    \/ \E filename \in ReferenceFiles, name \in ReferenceNames, sound \in Sounds :
          /\ Cardinality(AudioFiles(prosody_dir)) < MaxReferences
          /\ upload_reference(filename, name, sound)
    \/ \E reference_id \in ReferenceIds : delete_reference(reference_id)
    \/ preload_all_profiles

SpecProsody == ProsodyInit /\ [][NextProsody]_vars

(***************************************************************************)
(* SpecTransfer: apply_prosody (src/app/services/prosody.py) on the files  *)
(* of the temporary directory.  `tmp_dir` is the content of each temporary *)
(* file by its number.                                                     *)
(***************************************************************************)
\* the most temporary files
MaxTmpFiles == 2

TmpPaths == 1..MaxTmpFiles

\* what Praat's pitch analysis reports for a file: mean and standard
\* deviation in Hz, which are undefined (NaN) when no frame is voiced; a file
\* that is not audio cannot be loaded
Analysis(content) ==
    IF content.kind # "audio" THEN [loaded |-> FALSE, defined |-> FALSE, mean |-> 0, std |-> 0]
    ELSE IF content.sound = "silent"
    THEN [loaded |-> TRUE, defined |-> FALSE, mean |-> 0, std |-> 0]
    ELSE IF content.sound = "monotone"
    THEN [loaded |-> TRUE, defined |-> TRUE, mean |-> 120, std |-> 0]
    ELSE [loaded |-> TRUE, defined |-> TRUE, mean |-> 120, std |-> 25]

\* source_mean <= 0 or source_std <= 0: no comparison with NaN is true
SourceNotPositive(analysis) ==
    analysis.defined /\ (analysis.mean <= 0 \/ analysis.std <= 0)

\* where the transfer may raise: nowhere, while the pitch is manipulated,
\* while the new sound is saved to the temporary file just created
TransferFaults == {"none", "manipulation", "save"}

\* what the call returns and the files it leaves
Transfer(dir, tmp, voice_path, profile, out_path, fault) ==
    LET analysis == Analysis(tmp[voice_path])
        unchanged == [path |-> voice_path, dir |-> dir, tmp |-> tmp]
    IN  IF profile = None THEN unchanged
        ELSE IF ~_is_valid_profile(Get(profile)) THEN unchanged
        ELSE IF voice_path \notin DOMAIN tmp THEN unchanged
        ELSE IF ~analysis.loaded THEN unchanged
        ELSE IF SourceNotPositive(analysis) THEN unchanged
        ELSE IF fault = "manipulation" THEN unchanged
        ELSE IF fault = "save"
        THEN [unchanged EXCEPT !.tmp = WriteFile(tmp, out_path, Json(ZeroProfile))]
        ELSE [path |-> out_path, dir |-> dir,
              tmp |-> WriteFile(tmp, out_path, Audio("resynthesized"))]

\* a variant that does not look at the intensity
apply_prosody_at_any_intensity(voice_path, reference, intensity, out_path, fault) ==
    LET got == get_prosody_profile(prosody_dir, reference)
        done == IF reference = NONE_REFERENCE
                THEN [path |-> voice_path, dir |-> prosody_dir, tmp |-> tmp_dir]
                ELSE Transfer(got.dir, tmp_dir, voice_path, got.profile, out_path, fault)
    IN  /\ prosody_dir' = done.dir
        /\ tmp_dir' = done.tmp
        /\ reply' = Reply("apply_prosody", 0,
                          [voice_path |-> voice_path, reference |-> reference,
                           intensity |-> intensity, returned |-> done.path])
        /\ UNCHANGED <<catVars, templates, uploads, signalVars>>

\* intensity in hundredths; `out_path` is the name the temporary file gets
apply_prosody(voice_path, reference, intensity, out_path, fault) ==
    LET got == get_prosody_profile(prosody_dir, reference)
        done == IF reference = NONE_REFERENCE \/ intensity <= 0
                THEN [path |-> voice_path, dir |-> prosody_dir, tmp |-> tmp_dir]
                ELSE Transfer(got.dir, tmp_dir, voice_path, got.profile, out_path, fault)
    IN  /\ prosody_dir' = done.dir
        /\ tmp_dir' = done.tmp
        /\ reply' = Reply("apply_prosody", 0,
                          [voice_path |-> voice_path, reference |-> reference,
                           intensity |-> intensity, returned |-> done.path])
        /\ UNCHANGED <<catVars, templates, uploads, signalVars>>

\* the narration: speech, a recording of one pitch, one without pitch, a
\* file that is no audio
TransferInit ==
    /\ stimuli = <<>>
    /\ outputs = {}
    /\ run = [h \in Handlers |-> IdleRun]
    /\ reply = NoReply
    /\ templates = <<>>
    /\ uploads = <<>>
    /\ prosody_dir \in ProsodyDirs
    /\ SignalInit
    /\ tmp_dir \in {1 :> content :
                      content \in {Audio(sound) : sound \in Sounds} \cup {Json(ZeroProfile)}}

TransferReferences == {NONE_REFERENCE, GREAT_DICTATOR, <<"n", "o", "p", "e">>}

TransferIntensities == {-50, 0, 50, 100}

NextTransfer ==
    \E voice_path \in TmpPaths, reference \in TransferReferences,
       intensity \in TransferIntensities, out_path \in TmpPaths \ DOMAIN tmp_dir,
       fault \in TransferFaults :
        apply_prosody(voice_path, reference, intensity, out_path, fault)

SpecTransfer == TransferInit /\ [][NextTransfer]_vars

(***************************************************************************)
(* SpecUpdate: PUT /stimuli/{stimulus_id} asked of a catalog of drafts and *)
(* generated stimuli.  The rows carry the column created_at, which the     *)
(* database fills when a row is inserted.                                  *)
(***************************************************************************)
\* CURRENT_TIMESTAMP at the insertion of the row: later for a later id
CreatedAt(id) == CHOOSE n \in 1..MaxExportSeq : StimId(n) = id

Stamped(row, created_at) == ("created_at" :> created_at) @@ row

UpdateInit ==
    /\ stimuli \in {[id \in DOMAIN kinds |->
                       Stamped(IF kinds[id] = "draft" THEN PlainRow ELSE GeneratedRow(id),
                               CreatedAt(id))] :
                    kinds \in UNION {[ids -> {"draft", "generated"}] :
                                        ids \in SUBSET ExportIds}}
    /\ outputs = {}
    /\ run = [h \in Handlers |-> IdleRun]
    /\ RestInit

UpdateBodies ==
    {FullBody, MissingTrackBody, NoTextBody, [NoTextBody EXCEPT !.voice.voice_id = "v2"]}

\* PUT /stimuli/{stimulus_id} with its response
update_stimulus_answered(stimulus_id, body) ==
    LET existing == get_stimulus(stimuli, stimulus_id)
        updated == update_stimulus(stimuli, stimulus_id, ParseStimulusCreate(body))
    IN  /\ stimuli' = IF existing = None THEN stimuli ELSE updated
        /\ reply' = Reply("update", IF existing = None THEN 404 ELSE 200,
                          [stimulus_id |-> stimulus_id, stimulus |-> body])
        /\ UNCHANGED <<outputs, run, templates, uploads, audioVars>>

NextUpdate ==
    \E stimulus_id \in ExportIds \cup {UnknownId}, body \in UpdateBodies :
        update_stimulus_answered(stimulus_id, body)

SpecUpdate == UpdateInit /\ [][NextUpdate]_vars

(***************************************************************************)
(* SpecDuck: the loop of _duck_music_to_voice over one music track and one *)
(* narration, one action per window.  Gains are held in units of 10^-5 dB  *)
(* and levels in units of 10^-2 dBFS; a product of the loop is rounded to  *)
(* the nearest unit.  The narration is silence, then speech at one level   *)
(* from onset_ms to end_ms and again from resume_ms to finish_ms, then     *)
(* silence, cut at multiples of 20 ms.                                     *)
(***************************************************************************)
GainPerDb == 100000

LevelPerDb == 100

UnitMs == 20

IntMin(a, b) == IF a < b THEN a ELSE b

Distance(a, b) == IF a < b THEN b - a ELSE a - b

\* n / d to the nearest integer, for d > 0
RoundDiv(n, d) == (2 * n + d) \div (2 * d)

\* 20 * log10 of the share of a window of three units that is speech, as a
\* loss in 10^-2 dB: one unit of three, two of three, all three
PartLoss == <<477, 176, 0>>

\* the units of voice[from_ms:to_ms] that are speech
LoudUnits(voice, from_ms, to_ms) ==
    Cardinality({u \in (from_ms \div UnitMs)..((to_ms \div UnitMs) - 1) :
                    \/ voice.onset_ms <= u * UnitMs /\ u * UnitMs < voice.end_ms
                    \/ voice.resume_ms <= u * UnitMs /\ u * UnitMs < voice.finish_ms})

\* _rms_dbfs(voice[from_ms:to_ms]) for a window of 60 ms
_rms_dbfs(voice, from_ms, to_ms) ==
    LET loud == LoudUnits(voice, from_ms, to_ms)
    IN  IF loud = 0 THEN -120 * LevelPerDb ELSE voice.level - PartLoss[loud]

\* the target gain for the level seen ahead
DuckTarget(v_db_la, floor_boost_db, max_duck_db) ==
    IF v_db_la <= -48 * LevelPerDb THEN floor_boost_db
    ELSE IF v_db_la >= -26 * LevelPerDb THEN max_duck_db
    ELSE LET t == v_db_la + 48 * LevelPerDb
             whole == 22 * LevelPerDb
         IN  RoundDiv(max_duck_db * t + floor_boost_db * (whole - t), whole)

\* a variant of the smoothing with the attack and the release exchanged
SmoothExchanged(prev_gain, target, step, attack_ms, release_ms) ==
    LET rate_ms == IF target < prev_gain THEN IntMax(1, release_ms)
                   ELSE IntMax(1, attack_ms)
    IN  IF step >= rate_ms THEN target
        ELSE prev_gain + RoundDiv(step * (target - prev_gain), rate_ms)

\* gain = prev_gain + alpha * (target - prev_gain)
Smooth(prev_gain, target, step, attack_ms, release_ms) ==
    LET rate_ms == IF target < prev_gain THEN IntMax(1, attack_ms)
                   ELSE IntMax(1, release_ms)
    IN  IF step >= rate_ms THEN target
        ELSE prev_gain + RoundDiv(step * (target - prev_gain), rate_ms)

\* the keyword arguments of _duck_music_to_voice: its defaults, and those
\* mix_audio passes
DuckDefaults ==
    [floor_boost_db |-> 3 * GainPerDb, max_duck_db |-> -3 * GainPerDb,
     attack_ms |-> 180, release_ms |-> 650, win_ms |-> 60,
     lookahead_ms |-> 500, gap_hold_ms |-> 2600]

DuckArguments == {DuckDefaults, [DuckDefaults EXCEPT !.max_duck_db = -150000]}

\* narrations: onset, length and level of the speech
DuckOnsets == {600, 1000, 1220}

DuckLengths == {60, 300, 1500, 3000}

DuckLevels == {-26 * LevelPerDb, -20 * LevelPerDb, -6 * LevelPerDb}

DuckVoices ==
    {[onset_ms |-> onset_ms, end_ms |-> onset_ms + length,
      resume_ms |-> onset_ms + length, finish_ms |-> onset_ms + length,
      level |-> level] :
        onset_ms \in DuckOnsets, length \in DuckLengths, level \in DuckLevels}

\* len(music)
DuckMusicMs == {9000}

DuckInit ==
    /\ stimuli = <<>>
    /\ outputs = {}
    /\ run = [h \in Handlers |-> IdleRun]
    /\ reply = NoReply
    /\ templates = <<>>
    /\ uploads = <<>>
    /\ prosody_dir = <<>>
    /\ tmp_dir = <<>>
    /\ synth = NoSynth
    /\ conn = NoConn
    /\ duck \in {[pc |-> "loop", voice |-> voice, music_ms |-> music_ms,
                  arguments |-> arguments, i |-> 0, prev_gain |-> 0,
                  in_voice_region |-> FALSE, silence_run_ms |-> 0,
                  out |-> <<>>, targets |-> <<>>] :
                 voice \in DuckVoices, music_ms \in DuckMusicMs,
                 arguments \in DuckArguments}

\* hold_level = max(max_duck_db + 1.5, -1.5)
HoldLevel(max_duck_db) == IntMax(max_duck_db + 150000, -150000)

\* a variant of the silence run that a voiced window does not reset
SilenceRunKept(voice_now, in_voice_region, silence_run_ms, step) ==
    IF voice_now THEN silence_run_ms
    ELSE IF in_voice_region THEN silence_run_ms + step
    ELSE 0

\* silence_run_ms after the window
SilenceRun(voice_now, in_voice_region, silence_run_ms, step) ==
    IF voice_now THEN 0
    ELSE IF in_voice_region THEN silence_run_ms + step
    ELSE 0

\* one pass of the loop of _duck_music_to_voice: out holds the gain applied
\* to each window of the music, targets the target of each window
DuckWindow ==
    /\ duck.pc = "loop"
    /\ LET a == duck.arguments
           win == IntMax(20, a.win_ms)
           step == win
           i_ms == duck.i
           start_v_la == i_ms + a.lookahead_ms
           v_db_la == _rms_dbfs(duck.voice, start_v_la, start_v_la + win)
           v_now_db == _rms_dbfs(duck.voice, i_ms, i_ms + win)
           voice_now == v_now_db > -45 * LevelPerDb
           run_ms == SilenceRun(voice_now, duck.in_voice_region, duck.silence_run_ms, step)
           in_region == IF voice_now THEN TRUE
                        ELSE duck.in_voice_region /\ run_ms < a.gap_hold_ms
           seen == DuckTarget(v_db_la, a.floor_boost_db, a.max_duck_db)
           short_gap == ~voice_now /\ in_region /\ run_ms < a.gap_hold_ms
           hold_level == HoldLevel(a.max_duck_db)
           target == IF short_gap THEN IntMin(seen, hold_level) ELSE seen
           gain == Smooth(duck.prev_gain, target, step, a.attack_ms, a.release_ms)
       IN  duck' = [duck EXCEPT !.pc = IF i_ms + step < duck.music_ms THEN "loop"
                                       ELSE "done",
                                !.i = i_ms + step,
                                !.prev_gain = gain,
                                !.in_voice_region = in_region,
                                !.silence_run_ms = run_ms,
                                !.out = Append(@, gain),
                                !.targets = Append(@, target)]
    /\ UNCHANGED <<catVars, reply, templates, uploads, prosody_dir, tmp_dir, synth, conn>>

SpecDuck == DuckInit /\ [][DuckWindow]_vars

\* narrations of two stretches of speech with a pause between them
HoldPauses == {300, 1200, 3000}

HoldLengths == {60, 600}

HoldLevels == {-40 * LevelPerDb, -20 * LevelPerDb}

HoldVoices ==
    {[onset_ms |-> 600, end_ms |-> 900, resume_ms |-> 900 + pause,
      finish_ms |-> 900 + pause + length, level |-> level] :
        pause \in HoldPauses, length \in HoldLengths, level \in HoldLevels}

HoldInit ==
    /\ stimuli = <<>>
    /\ outputs = {}
    /\ run = [h \in Handlers |-> IdleRun]
    /\ reply = NoReply
    /\ templates = <<>>
    /\ uploads = <<>>
    /\ prosody_dir = <<>>
    /\ tmp_dir = <<>>
    /\ synth = NoSynth
    /\ conn = NoConn
    /\ duck \in {[pc |-> "loop", voice |-> voice, music_ms |-> music_ms,
                  arguments |-> arguments, i |-> 0, prev_gain |-> 0,
                  in_voice_region |-> FALSE, silence_run_ms |-> 0,
                  out |-> <<>>, targets |-> <<>>] :
                 voice \in HoldVoices, music_ms \in DuckMusicMs,
                 arguments \in DuckArguments}

SpecHold == HoldInit /\ [][DuckWindow]_vars

(***************************************************************************)
(* SpecSynth: the attempts of _synth_chunk for one chunk of text, one      *)
(* action per pass of its loop.  Sleeps are held in hundredths of a        *)
(* second.                                                                 *)
(***************************************************************************)
MAX_RETRIES == 3

BACKOFF_BASE == 150

\* what requests.post meets: a response with a status, no connection, no
\* answer in time, or another failure of the request
HttpAnswer(status) == [kind |-> "http", status |-> status]

ConnectionFailed == [kind |-> "connection", status |-> 0]

TimedOut == [kind |-> "timeout", status |-> 0]

RequestFailed == [kind |-> "request", status |-> 0]

SynthAnswers ==
    {HttpAnswer(status) : status \in {200, 400, 401, 429, 500, 502, 503, 504}}
        \cup {ConnectionFailed, TimedOut, RequestFailed}

\* the statuses _synth_chunk names
RETRY_STATUSES == {429, 500, 502, 503, 504}

\* r.raise_for_status() raises for the statuses 400 to 599
RaisesForStatus(status) == 400 <= status /\ status < 600

\* the exceptions of _synth_chunk
PlainException(status) == [type |-> "Exception", status |-> status]

HTTPError(status) == [type |-> "HTTPError", status |-> status]

\* the exception the try block ends with, none when it returns the audio
Caught(answer) ==
    IF answer.kind = "connection" THEN Some([type |-> "ConnectionError", status |-> 0])
    ELSE IF answer.kind = "timeout" THEN Some([type |-> "Timeout", status |-> 0])
    ELSE IF answer.kind = "request" THEN Some([type |-> "RequestException", status |-> 0])
    ELSE IF RaisesForStatus(answer.status) THEN Some(HTTPError(answer.status))
    ELSE None

\* backoff_base ** attempt
RECURSIVE Backoff(_, _)
Backoff(backoff_base, attempt) ==
    IF attempt = 0 THEN 100
    ELSE (backoff_base * Backoff(backoff_base, attempt - 1)) \div 100

\* a variant of the test before a sleep that also holds on the last attempt
RetryOnLastAttempt(attempt, max_retries) == attempt <= max_retries

\* attempt < max_retries
RetryLeft(attempt, max_retries) == attempt < max_retries

SynthInit ==
    /\ stimuli = <<>>
    /\ outputs = {}
    /\ run = [h \in Handlers |-> IdleRun]
    /\ reply = NoReply
    /\ templates = <<>>
    /\ uploads = <<>>
    /\ prosody_dir = <<>>
    /\ tmp_dir = <<>>
    /\ duck = NoDuck
    /\ conn = NoConn
    /\ synth = [pc |-> "post", attempt |-> 1, answers |-> <<>>, slept |-> <<>>,
                last_exc |-> None, raised |-> None]

\* one pass of the loop of _synth_chunk, and the end of the function when it
\* was the last pass: answers holds what each request met, slept the failed
SynthAttempt(answer) ==
    /\ synth.pc = "post"
    /\ LET attempt == synth.attempt
           caught == Caught(answer)
           retried == answer.kind = "http" /\ answer.status \in RETRY_STATUSES
           failed == retried \/ caught # None
           again == failed /\ RetryLeft(attempt, MAX_RETRIES)
           last_exc == IF retried /\ again THEN Some(PlainException(answer.status))
                       ELSE caught
       IN  synth' = [synth EXCEPT
                       !.answers = Append(@, answer),
                       !.last_exc = IF failed THEN last_exc ELSE @,
                       !.slept = IF again THEN Append(@, Backoff(BACKOFF_BASE, attempt))
                                 ELSE @,
                       !.attempt = IF again THEN attempt + 1 ELSE @,
                       !.pc = IF ~failed THEN "returned"
                              ELSE IF again /\ attempt < MAX_RETRIES THEN "post"
                              ELSE "raised",
                       !.raised = IF ~failed THEN None
                                  ELSE IF again /\ attempt < MAX_RETRIES THEN None
                                  ELSE last_exc]
    /\ UNCHANGED <<catVars, reply, templates, uploads, prosody_dir, tmp_dir, duck, conn>>

NextSynth == \E answer \in SynthAnswers : SynthAttempt(answer)

SpecSynth == SynthInit /\ [][NextSynth]_vars

(***************************************************************************)
(* SpecDb: the connection scope of get_db around the statements of one     *)
(* data-access operation after another.  The database file holds the rows  *)
(* committed; a connection holds the rows written and not yet committed.   *)
(***************************************************************************)
MaxWrites == 2

DbRows == 1..3

Range(seq) == {seq[i] : i \in DOMAIN seq}

DbInit ==
    /\ stimuli = <<>>
    /\ outputs = {}
    /\ run = [h \in Handlers |-> IdleRun]
    /\ reply = NoReply
    /\ templates = <<>>
    /\ uploads = <<>>
    /\ prosody_dir = <<>>
    /\ tmp_dir = <<>>
    /\ duck = NoDuck
    /\ synth = NoSynth
    /\ conn = [pc |-> "idle", open |-> FALSE, database |-> {}, transaction |-> <<>>,
               result |-> "none"]

\* a variant of conn.rollback() that keeps what was written
RollbackKeeping(database, transaction) == database \cup Range(transaction)

\* conn.rollback()
Rollback(database, transaction) == database

\* conn.commit()
Commit(database, transaction) == database \cup Range(transaction)

\* conn.close(): what was not committed is gone
Close(c, database, result) ==
    [c EXCEPT !.pc = "idle", !.open = FALSE, !.database = database,
              !.transaction = <<>>, !.result = result]

\* with get_db() as conn: get_connection() and the yield
EnterScope ==
    /\ conn.pc = "idle"
    /\ conn' = [conn EXCEPT !.pc = "body", !.open = TRUE, !.result = "none"]
    /\ UNCHANGED <<catVars, reply, templates, uploads, prosody_dir, tmp_dir, duck, synth>>

\* conn.execute of an INSERT, UPDATE or DELETE in the body
Execute(row) ==
    /\ conn.pc = "body"
    /\ Len(conn.transaction) < MaxWrites
    /\ conn' = [conn EXCEPT !.transaction = Append(@, row)]
    /\ UNCHANGED <<catVars, reply, templates, uploads, prosody_dir, tmp_dir, duck, synth>>

\* the body raises an Exception: except, then finally
BodyRaises ==
    /\ conn.pc = "body"
    /\ conn' = Close(conn, Rollback(conn.database, conn.transaction), "raised")
    /\ UNCHANGED <<catVars, reply, templates, uploads, prosody_dir, tmp_dir, duck, synth>>

\* the body is left by something that is no Exception: finally alone
BodyInterrupted ==
    /\ conn.pc = "body"
    /\ conn' = Close(conn, conn.database, "interrupted")
    /\ UNCHANGED <<catVars, reply, templates, uploads, prosody_dir, tmp_dir, duck, synth>>

\* the body ends or returns: conn.commit(), which succeeds or raises, then
\* finally
BodyExits(committed) ==
    /\ conn.pc = "body"
    /\ conn' = IF committed
               THEN Close(conn, Commit(conn.database, conn.transaction), "returned")
               ELSE Close(conn, Rollback(conn.database, conn.transaction), "raised")
    /\ UNCHANGED <<catVars, reply, templates, uploads, prosody_dir, tmp_dir, duck, synth>>

NextDb ==
    \/ EnterScope
    \/ \E row \in DbRows : Execute(row)
    \/ BodyRaises
    \/ BodyInterrupted
    \/ \E committed \in BOOLEAN : BodyExits(committed)

SpecDb == DbInit /\ [][NextDb]_vars

(***************************************************************************)
(* SpecChunks: _split_text_into_chunks asked of short texts over letters,  *)
(* full stops and spaces.                                                  *)
(***************************************************************************)
MaxText == 5

ChunkAlphabet == {"a", ".", " "}

ChunkTexts == UNION {[1..n -> ChunkAlphabet] : n \in 0..MaxText}

ChunkLimits == 1..4

\* [\.\!\?]
SENTENCE_ENDS == {".", "!", "?"}

\* the end of a match of \s+ that starts at i
RECURSIVE AfterSpaces(_, _)
AfterSpaces(text, i) ==
    IF i <= Len(text) /\ IsSpace(text[i]) THEN AfterSpaces(text, i + 1) ELSE i

\* _SENTENCE_SPLIT_RE.split(text), from position i with cur read
RECURSIVE SentencesFrom(_, _, _)
SentencesFrom(text, i, cur) ==
    IF i > Len(text) THEN <<cur>>
    ELSE IF IsSpace(text[i]) /\ i > 1 /\ text[i - 1] \in SENTENCE_ENDS
    THEN <<cur>> \o SentencesFrom(text, AfterSpaces(text, i), <<>>)
    ELSE SentencesFrom(text, i + 1, Append(cur, text[i]))

\* " ".join(cur)
RECURSIVE JoinSpace(_)
JoinSpace(cur) ==
    IF cur = <<>> THEN <<>>
    ELSE IF Len(cur) = 1 THEN cur[1]
    ELSE cur[1] \o <<" ">> \o JoinSpace(Tail(cur))

\* s[i:i + max_chars] for i in range(0, len(s), max_chars)
HardSplit(s, max_chars) ==
    [n \in 1..((Len(s) + max_chars - 1) \div max_chars) |->
        SubSeq(s, (n - 1) * max_chars + 1, IntMin(n * max_chars, Len(s)))]

\* a variant of add_len that forgets the joining space
AddLenBare(s, cur_len) == Len(s)

\* add_len = len(s) + (1 if cur_len > 0 else 0)
AddLen(s, cur_len) == Len(s) + (IF cur_len > 0 THEN 1 ELSE 0)

\* the loop over the sentences and the lines after it
RECURSIVE PackSentences(_, _, _, _, _)
PackSentences(sentences, chunks, cur, cur_len, max_chars) ==
    IF sentences = <<>>
    THEN IF cur # <<>> THEN Append(chunks, JoinSpace(cur)) ELSE chunks
    ELSE LET s == Strip(sentences[1])
             rest == Tail(sentences)
             add_len == AddLen(s, cur_len)
             closed == IF cur # <<>> THEN Append(chunks, JoinSpace(cur)) ELSE chunks
         IN  IF s = <<>> THEN PackSentences(rest, chunks, cur, cur_len, max_chars)
             ELSE IF cur_len + add_len <= max_chars
             THEN PackSentences(rest, chunks, Append(cur, s), cur_len + add_len, max_chars)
             ELSE IF Len(s) > max_chars
             THEN PackSentences(rest, closed \o HardSplit(s, max_chars), <<>>, 0, max_chars)
             ELSE PackSentences(rest, closed, <<s>>, Len(s), max_chars)

_split_text_into_chunks(text, max_chars) ==
    LET stripped == Strip(text)
    IN  IF Len(stripped) <= max_chars THEN <<stripped>>
        ELSE PackSentences(SentencesFrom(stripped, 1, <<>>), <<>>, <<>>, 0, max_chars)

\* one call of _split_text_into_chunks
ChunksAsked ==
    \E text \in ChunkTexts, max_chars \in ChunkLimits :
        /\ reply = NoReply
        /\ reply' = Reply("chunks", 200,
                          [text |-> text, max_chars |-> max_chars,
                           chunks |-> _split_text_into_chunks(text, max_chars)])
        /\ UNCHANGED <<catVars, templates, uploads, audioVars>>

SpecChunks == CatalogInit /\ [][ChunksAsked]_vars

(***************************************************************************)
(* SpecFit: _hard_fit_samples asked of segments a few frames longer or     *)
(* shorter than the target.  A segment is its count of frames and its      *)
(* frame rate.                                                             *)
(***************************************************************************)
FitRates == {44100, 48000}

FitTargets == {441, 44100}

FitDifferences == -50..5

\* AudioSegment.silent(duration, frame_rate): int(frame_rate * (duration /
\* 1000.0)) frames
SilentFrames(duration, frame_rate) ==
    FloatToInt(FloatMul(IntTrueDiv(duration, 1000), Double(frame_rate, 0)))

\* the frames of the segment _hard_fit_samples returns
_hard_fit_samples(total_frames, frame_rate, target_samples_per_ch) ==
    IF total_frames = target_samples_per_ch THEN total_frames
    ELSE IF total_frames > target_samples_per_ch THEN target_samples_per_ch
    ELSE LET need_frames == target_samples_per_ch - total_frames
             pad_ms == FloatToInt(IntTrueDiv(1000 * need_frames, frame_rate))
             out == total_frames + SilentFrames(pad_ms, frame_rate)
         IN  IntMin(out, target_samples_per_ch)

\* one call of _hard_fit_samples
FitAsked ==
    \E frame_rate \in FitRates, target \in FitTargets, difference \in FitDifferences :
        /\ reply = NoReply
        /\ reply' = Reply("fit", 200,
                          [total_frames |-> target + difference, frame_rate |-> frame_rate,
                           target |-> target,
                           frames |-> _hard_fit_samples(target + difference, frame_rate,
                                                        target)])
        /\ UNCHANGED <<catVars, templates, uploads, audioVars>>

SpecFit == CatalogInit /\ [][FitAsked]_vars

(***************************************************************************)
(* SpecExtract: extract_prosody with the conversion of _convert_to_wav and *)
(* the temporary files it creates.                                         *)
(***************************************************************************)
\* how the conversion goes: ffmpeg writes the WAV file, ffmpeg returns a
\* code other than 0, ffmpeg leaves the file empty, subprocess.run raises
Conversions == {"converted", "failed", "empty", "error"}

EmptyFile == [kind |-> "empty", sound |-> "", profile |-> ZeroProfile]

\* _convert_to_wav(audio_path): the path it returns, none standing for
\* audio_path itself, and the temporary files after it
_convert_to_wav(tmp, extension, content, temp_wav, conversion) ==
    IF Lower(extension) = WAV THEN [wav_path |-> None, tmp |-> tmp]
    ELSE IF conversion = "converted"
    THEN [wav_path |-> Some(temp_wav), tmp |-> WriteFile(tmp, temp_wav, content)]
    ELSE [wav_path |-> None, tmp |-> WriteFile(tmp, temp_wav, EmptyFile)]

\* extract_prosody(audio_path) of a file with this extension and content:
\* the try block, its except and its finally
ExtractWithConversion(extension, content, temp_wav, conversion, analysis_raises) ==
    LET converted == _convert_to_wav(tmp_dir, extension, content, temp_wav, conversion)
        temp_wav_path == converted.wav_path
        \* Praat reads the WAV file, and the file itself when it was not
        \* converted
        profile == IF analysis_raises THEN ZeroProfile ELSE extract_prosody(content)
    IN  /\ tmp_dir' = IF temp_wav_path # None /\ Get(temp_wav_path) \in DOMAIN converted.tmp
                      THEN Unlink(converted.tmp, Get(temp_wav_path))
                      ELSE converted.tmp
        /\ reply' = Reply("extract", 200,
                          [extension |-> extension, content |-> content,
                           conversion |-> conversion, profile |-> profile])
        /\ UNCHANGED <<catVars, templates, uploads, prosody_dir, signalVars>>

ExtractExtensions == {M4A, MP3, WAV}

NextExtract ==
    \E extension \in ExtractExtensions, sound \in Sounds, temp_wav \in TmpPaths \ DOMAIN tmp_dir,
       conversion \in Conversions, analysis_raises \in BOOLEAN :
        ExtractWithConversion(extension, Audio(sound), temp_wav, conversion, analysis_raises)

SpecExtract == CatalogInit /\ [][NextExtract]_vars

(***************************************************************************)
(* SpecZero: stimuli created with parameters set to 0, and read back.      *)
(***************************************************************************)
ZeroBodies ==
    {[voice |-> [voice_id |-> "v1", stability |-> 0]],
     [voice |-> [voice_id |-> "v1"], music |-> [volume_db |-> 0, crossfade_ms |-> 0]],
     [voice |-> [voice_id |-> "v1"], mix |-> [reverb_mix |-> 0]],
     [voice |-> [voice_id |-> "v1"], mix |-> [pitch_shift |-> 0], prosody |-> [intensity |-> 0]],
     FullBody}

NextZero ==
    \/ \E body \in ZeroBodies, id \in OptionalIds :
          Admits(IdUniverse(MaxSeq), id) /\ create_new_stimulus(body, id)
    \/ \E id \in IdUniverse(MaxSeq) : get_stimulus_by_id(id)

SpecZero == CatalogInit /\ [][NextZero]_vars

(***************************************************************************)
(* SpecDirect: POST /generate/direct asked of a catalog by a client that   *)
(* sends one request at a time: a stimulus is created only while no        *)
(* generation is being served.                                             *)
(***************************************************************************)
NextDirect ==
    \/ \E body \in {FullBody, MissingTrackBody}, id \in OptionalIds :
          /\ run[1].pc = "idle"
          /\ Admits(IdUniverse(MaxSeq), id)
          /\ create_new_stimulus(body, id)
    \/ \E body \in {FullBody, MissingTrackBody}, id \in OptionalIds,
          save_to_db \in BOOLEAN :
            Admits(IdUniverse(MaxSeq), id) /\ generate_direct(1, body, id, save_to_db)
    \/ DirectCreate(1)
    \/ MarkGenerating(1)
    \/ \E ok \in BOOLEAN : Synthesize(1, ok)
    \/ \E outcome \in ProsodyOutcomes : ApplyProsody(1, outcome)
    \/ \E ok \in BOOLEAN, d \in Durations : Mix(1, ok, d)
    \/ Persist(1)
    \/ Except(1)
    \/ Return(1)

SpecDirect == CatalogInit /\ [][NextDirect]_vars

(***************************************************************************)
(* SpecStems: the prosody router over custom references whose recordings   *)
(* share a stem: ref.mp3 and ref.wav.  A reference is asked by its stem,   *)
(* as upload_reference names it, or by its file name, as                   *)
(* list_prosody_references names it.                                       *)
(***************************************************************************)
StemFiles == { <<"r", "e", "f">> \o MP3, <<"r", "e", "f">> \o WAV }

StemIds == { <<"r", "e", "f">> } \cup StemFiles

NextStems ==
    \/ \E reference_id \in StemIds : get_profile(reference_id)
    \/ \E filename \in StemFiles, sound \in {"voiced", "monotone"} :
          /\ Cardinality(AudioFiles(prosody_dir)) < MaxReferences
          /\ upload_reference(filename, <<>>, sound)
    \/ \E reference_id \in StemIds : delete_reference(reference_id)
    \/ preload_all_profiles

SpecStems == CatalogInit /\ [][NextStems]_vars

(***************************************************************************)
(* SpecTracks: the track paths of the music library, as the music router   *)
(* lists and resolves them (src/app/routers/music.py) and as generation    *)
(* looks them up (src/app/routers/generate.py).  A file is known by the    *)
(* directory it is under, MUSIC_DIR or UPLOADED_MUSIC_DIR, and its path    *)
(* relative to that directory.                                             *)
(***************************************************************************)
UPLOADED_PREFIX == <<"_", "_", "u", "p", "l", "o", "a", "d", "e", "d", "_", "_", "/">>

\* str(item.relative_to(base_dir))
RelativePath(track) ==
    IF track.dir = <<>> THEN track.name ELSE track.dir \o <<"/">> \o track.name

\* the "path" of a listed track: uploaded tracks are prefixed
path_for_api(track) ==
    IF track.base = "uploads" THEN UPLOADED_PREFIX \o RelativePath(track)
    ELSE RelativePath(track)

\* path.startswith(prefix)
StartsWith(path, prefix) ==
    Len(path) >= Len(prefix) /\ SubSeq(path, 1, Len(prefix)) = prefix

\* the prefix is replaced once, where the path starts
get_full_path_from_api_path(path) ==
    IF StartsWith(path, UPLOADED_PREFIX)
    THEN [base |-> "uploads", rel |-> SubSeq(path, Len(UPLOADED_PREFIX) + 1, Len(path))]
    ELSE [base |-> "assets", rel |-> path]

\* `music_path = MUSIC_DIR / stimulus.music.track`
MusicPath(track) == [base |-> "assets", rel |-> track]

\* Path.exists() of a file of the library
TrackExists(tree, full_path) ==
    \E track \in DefaultTracks \cup UploadedTracks(tree) :
        track.base = full_path.base /\ RelativePath(track) = full_path.rel

\* the paths list_music returns
ListedPaths(tree) == {path_for_api(track.full_path) : track \in scan_music_library(tree)}

\* GET /music/by-path
get_track_by_path(path) ==
    LET full_path == get_full_path_from_api_path(path)
    IN  /\ reply' = Reply("by_path", IF TrackExists(uploads, full_path) THEN 200 ELSE 404,
                          [path |-> path, full_path |-> full_path])
        /\ UNCHANGED <<catVars, templates, uploads, audioVars>>

\* step 3 of generation for a stimulus whose music.track is `track`: the
\* track is looked up, and the run fails when it is not found
LookUpTrack(track) ==
    LET music_path == MusicPath(track)
    IN  /\ reply' = Reply("generate", 200,
                          [path |-> track, full_path |-> music_path,
                           status |-> IF TrackExists(uploads, music_path) THEN "mixing"
                                      ELSE "failed"])
        /\ UNCHANGED <<catVars, templates, uploads, audioVars>>

TrackNames == { <<"a", ".", "m", "p", "3">> }

NextTracks ==
    \/ \E filename \in TrackNames, content \in UploadContents,
          folder \in UploadFolders, saved \in BOOLEAN :
          /\ Cardinality(DOMAIN uploads) < MaxFiles
          /\ upload_music(filename, content, folder, saved)
    \/ \E path \in ListedPaths(uploads) : get_track_by_path(path)
    \/ \E track \in ListedPaths(uploads) : LookUpTrack(track)

SpecTracks == CatalogInit /\ [][NextTracks]_vars

(***************************************************************************)
(* SpecRace: POST /stimuli without an id, served by two handlers whose     *)
(* connection scopes interleave.  A request is three scopes: the read of   *)
(* the next id, the lookup of that id, and the INSERT; each scope is one   *)
(* step.                                                                   *)
(***************************************************************************)
\* `if not stimulus.id: stimulus.id = get_next_stimulus_id()`
CreateRequested(h, body) ==
    /\ Free(h)
    /\ run' = [run EXCEPT ![h] =
                 [IdleRun EXCEPT !.pc = "check", !.kind = "create",
                                 !.id = get_next_stimulus_id(stimuli),
                                 !.params = Some(ParseStimulusCreate(body))]]
    /\ UNCHANGED <<stimuli, outputs>>
    /\ UNCHANGED nonCatVars

\* `existing = get_stimulus(stimulus.id)`: 400 when there is one
CreateChecked(h) ==
    /\ run[h].pc = "check"
    /\ run[h].kind = "create"
    /\ run' = [run EXCEPT ![h] =
                 IF get_stimulus(stimuli, run[h].id) # None
                 THEN Respond(run[h], 400, "", <<"exists">>)
                 ELSE [@ EXCEPT !.pc = "insert"]]
    /\ UNCHANGED <<stimuli, outputs>>
    /\ UNCHANGED nonCatVars

\* `create_stimulus(stimulus)`: 500 when the INSERT raises
CreateInserted(h) ==
    LET stimulus == [Get(run[h].params) EXCEPT !.id = Some(run[h].id)]
        created == create_stimulus(stimuli, stimulus)
    IN  /\ run[h].pc = "insert"
        /\ run[h].kind = "create"
        /\ stimuli' = created.table
        /\ run' = [run EXCEPT ![h] =
                     IF created.raised THEN Respond(run[h], 500, "", <<"error">>)
                     ELSE Respond(run[h], 200, "", <<"created">>)]
        /\ UNCHANGED outputs
        /\ UNCHANGED nonCatVars

NextRace ==
    \/ \E h \in Handlers, body \in {FullBody, MissingTrackBody, NoTextBody} :
          /\ get_next_stimulus_id(stimuli) \in IdUniverse(MaxSeq)
          /\ CreateRequested(h, body)
    \/ \E h \in Handlers : CreateChecked(h)
    \/ \E h \in Handlers : CreateInserted(h)
    \/ \E h \in Handlers : Return(h)

SpecRace == CatalogInit /\ [][NextRace]_vars

(***************************************************************************)
(* Properties of the stimulus lifecycle.                                   *)
(***************************************************************************)
Has(log, event) == \E i \in 1..Len(log) : log[i] = event

Pos(log, event) == CHOOSE i \in 1..Len(log) : log[i] = event

Before(log, a, b) == Has(log, a) /\ Has(log, b) /\ Pos(log, a) < Pos(log, b)

\* C1: a stimulus whose status is `generated` has a non-null audio_filename
\* and a non-null duration_ms, whatever the interleaving of the catalog's
\* operations, two generation runs on one id included
GeneratedHasAudio ==
    \A id \in DOMAIN stimuli :
        stimuli[id].status = "generated" =>
            /\ stimuli[id].audio_filename # None
            /\ stimuli[id].duration_ms # None

\* C1: a run has written `generated` on an id while the other handler is in
\* the middle of a run on the same id
GeneratedDuringRace ==
    \E id \in DOMAIN stimuli :
        /\ stimuli[id].status = "generated"
        /\ run[1].id = id /\ run[1].save_to_db
        /\ run[2].id = id /\ run[2].save_to_db
        /\ \E h \in Handlers :
              /\ run[h].pc = "done" /\ run[h].response.status = "generated"
              /\ \E g \in Handlers \ {h} : run[g].pc \in {"synth", "prosody", "mix"}

\* C2: a stimulus whose status is `draft` or `failed` has a null
\* audio_filename
DraftOrFailedHasNoAudio ==
    \A id \in DOMAIN stimuli :
        stimuli[id].status \in {"draft", "failed"} => stimuli[id].audio_filename = None

\* C3: when a step of generate_stimulus raises, the handler writes `failed`
\* and answers 200 with status `failed`; whenever generate_stimulus forms its
\* answer inside the try block, the stimulus, if it is still there, is
\* `generated` or `failed` and not `generating`
FailureIsReported ==
    [][\A h \in Handlers :
         (run[h].kind = "stored" /\ run[h].pc \notin {"idle", "done"}
          /\ run'[h].pc = "done") =>
            /\ run'[h].response.http = 200
            /\ run'[h].response.status \in {"generated", "failed"}
            /\ Has(run'[h].log, "error") => run'[h].response.status = "failed"
            /\ run[h].id \in DOMAIN stimuli' =>
                  stimuli'[run[h].id].status = run'[h].response.status
            /\ (run[h].pc \in {"synth", "prosody", "mix"}
                 /\ Has(run'[h].log, "error")) => run'[h].pc = "except"]_vars

\* C3: synthesis raised in a run of generate_stimulus, which answered 200
\* with status `failed`, and the stimulus is `failed`
FailureWasReported ==
    \E h \in Handlers :
        /\ run[h].kind = "stored" /\ run[h].pc = "done"
        /\ Has(run[h].log, "error")
        /\ run[h].response = [http |-> 200, status |-> "failed"]
        /\ run[h].id \in DOMAIN stimuli
        /\ stimuli[run[h].id].status = "failed"

\* C4: within one run, `generating` is written before synthesis starts,
\* prosody transfer comes after synthesis has produced its file, mixing
\* after both, and `generated` is written only after mixing succeeded
StepsInOrder ==
    \A h \in Handlers :
        LET log == run[h].log
        IN  /\ (Has(log, "synth") /\ run[h].save_to_db) => Before(log, "generating", "synth")
            /\ Has(log, "prosody") => Before(log, "synth", "prosody")
            /\ Has(log, "mix") =>
                  /\ Before(log, "synth", "mix")
                  /\ Has(log, "prosody") => Before(log, "prosody", "mix")
            /\ Has(log, "generated") =>
                  /\ Before(log, "mix", "generated")
                  /\ ~Has(log, "error")
            /\ (run[h].pc \in {"prosody", "mix"}) => run[h].voice_path # None

\* C4: a run of generate_stimulus went through all four steps
AllStepsTaken ==
    \E h \in Handlers :
        /\ run[h].kind = "stored"
        /\ run[h].log = <<"generating", "synth", "prosody", "mix", "generated">>

\* C16: when a run of generate_stimulus or generate_direct has looked up
\* the selected music track and found no file under the tracks directory,
\* the request is answered with HTTP status 400
MissingTrackIs400 ==
    [][\A h \in Handlers :
         (/\ run[h].pc = "except"
          /\ run[h].output_filename # None
          /\ Get(run[h].params).music.track # ""
          /\ Get(run[h].params).music.track \notin MusicTracks
          /\ run'[h].pc = "done") =>
            run'[h].response.http = 400]_vars

(***************************************************************************)
(* Properties of the stimuli router.                                       *)
(***************************************************************************)
\* C5: the next id is STIM_001 when the catalog holds no STIM_ id, and
\* otherwise STIM_ followed by the highest numeric suffix present plus one,
\* zero-padded to three digits, suffixes of 1000 and above included
NextIdIsHighestPlusOne ==
    LET seqs == {ParseInt(Split(id, "_")[2]) : id \in DOMAIN stimuli}
        highest == CHOOSE n \in seqs : \A k \in seqs : k <= n
    IN  reply.op = "next_id" =>
            reply.body = IF seqs = {} THEN StimId(1) ELSE StimId(highest + 1)

\* C6: a stimulus created from a body that gives voice.voice_id and nothing
\* else reads back with every other field at its default and status draft
VoiceOnlyReadsDefaults ==
    (reply.op = "get" /\ reply.http = 200) =>
        /\ reply.body.voice.voice_id \in VoiceIds
        /\ reply.body =
             [id |-> reply.body.id, status |-> "draft",
              audio_url |-> None, duration_ms |-> None,
              music |-> [track |-> "", volume_db |-> -600, speech_entry_ms |-> 0,
                         crossfade_ms |-> 2000],
              voice |-> [model |-> "eleven_multilingual_v2",
                         voice_id |-> reply.body.voice.voice_id, voice_name |-> "",
                         stability |-> 50, similarity_boost |-> 75,
                         style_exaggeration |-> 0, speaker_boost |-> TRUE,
                         speed |-> 100],
              text |-> [source |-> "manual", llm_model |-> "", llm_temperature |-> 70,
                        llm_prompt |-> "", speech_text |-> "", target_words |-> None],
              mix |-> [reverb_mix |-> 2500, reverb_decay |-> 150,
                       compression_ratio |-> 200, deesser_threshold |-> -600,
                       eq_low_cut |-> 80, eq_high_cut |-> 12000, pitch_shift |-> 0,
                       normalization_lufs |-> -1600],
              prosody |-> [reference |-> "none", intensity |-> 0],
              notes |-> <<>>]

\* C6: the stimulus created with the voice v2 alone has been read back
VoiceOnlyReadBack ==
    /\ reply.op = "get" /\ reply.http = 200
    /\ reply.body.voice.voice_id = "v2"
    /\ reply.body.id \in DOMAIN stimuli

\* C26: a stimulus that was created and is read back shows the music, voice,
\* mix and prosody parameters it was created with, which its row holds
ReadsBackAsSupplied ==
    (reply.op = "get" /\ reply.http = 200) =>
        LET row == stimuli[reply.body.id]
        IN  /\ reply.body.music = row.music
            /\ reply.body.mix = row.mix
            /\ reply.body.prosody = row.prosody
            /\ \A f \in DOMAIN row.voice \ {"speaker_boost"} :
                   reply.body.voice[f] = row.voice[f]
            /\ reply.body.voice.speaker_boost = (row.voice.speaker_boost = 1)

(***************************************************************************)
(* Properties of the templates router.                                     *)
(***************************************************************************)
\* C7: deleting a built-in template is answered 400 and leaves the custom
\* templates as they were; deleting an existing custom template removes
\* that template and no other, and getTemplate for its id then answers 404
DeleteTemplateContract ==
    [][reply'.op = "delete_template" =>
          LET id == reply'.body
          IN  /\ id \in {"chaplin_style", "calm_meditation", "cosmic_wonder"} =>
                    /\ reply'.http = 400
                    /\ templates' = templates
              /\ id \in DOMAIN templates =>
                    /\ reply'.http = 200
                    /\ DOMAIN templates' = DOMAIN templates \ {id}
                    /\ \A t \in DOMAIN templates' : templates'[t] = templates[t]
                    /\ TemplateLookup(templates', id).http = 404]_vars

\* C7: a custom template has been deleted while another one stays
CustomTemplateDeleted ==
    /\ reply.op = "delete_template" /\ reply.http = 200
    /\ reply.body \notin DOMAIN templates
    /\ templates # <<>>


\* C17: an update of an id that is present answers 200, sets the columns of
\* music, voice, text, mix, prosody and notes to those of the request, and
\* leaves status, audio_filename, duration_ms and created_at of that row, the
\* ids present and every other row as they were; an update of an id that is
\* not present answers 404 and changes nothing
UpdateReplacesEditableOnly ==
    [][reply'.op = "update" =>
         LET id == reply'.body.stimulus_id
             asked == ParseStimulusCreate(reply'.body.stimulus)
             old == stimuli[id]
             new == stimuli'[id]
         IN  IF id \in DOMAIN stimuli
             THEN /\ reply'.http = 200
                  /\ DOMAIN stimuli' = DOMAIN stimuli
                  /\ \A other \in DOMAIN stimuli \ {id} : stimuli'[other] = stimuli[other]
                  /\ new.status = old.status
                  /\ new.audio_filename = old.audio_filename
                  /\ new.duration_ms = old.duration_ms
                  /\ new.created_at = old.created_at
                  /\ new.music = asked.music
                  /\ new.mix = asked.mix
                  /\ new.prosody = asked.prosody
                  /\ new.notes = asked.notes
                  /\ \A f \in DOMAIN new.text : new.text[f] = asked.text[f]
                  /\ \A f \in DOMAIN new.voice \ {"speaker_boost"} :
                         new.voice[f] = asked.voice[f]
                  /\ new.voice.speaker_boost = 1 <=> asked.voice.speaker_boost
             ELSE /\ reply'.http = 404
                  /\ stimuli' = stimuli
    ]_vars

\* C17: a generated stimulus was updated to another track and is still
\* generated, with its audio, beside another stimulus
GeneratedStimulusUpdated ==
    /\ reply.op = "update"
    /\ reply.http = 200
    /\ reply.body.stimulus = MissingTrackBody
    /\ DOMAIN stimuli = ExportIds
    /\ LET row == stimuli[reply.body.stimulus_id]
       IN  /\ row.status = "generated"
           /\ row.audio_filename # None
           /\ row.music.track = MissingTrackBody.music.track

(***************************************************************************)
(* Properties of the export router.                                        *)
(***************************************************************************)
\* C8: exportBatch answers 400, and builds no ZIP, when the list of ids is
\* empty after trimming
EmptyIdListRejected ==
    (/\ reply.op = "export_batch"
     /\ \A i \in 1..Len(reply.body.request.stimulus_ids) :
           reply.body.request.stimulus_ids[i] \in {" ", ","}) =>
        /\ reply.http = 400
        /\ reply.body.entries = <<>>

\* C9: for a list that names ids, ids without a record are skipped, `total`
\* is the number of requested ids that have a record, and with includeAudio
\* the entries under audio/ are as many as the requested ids whose record
\* has an audio reference with its file on disk
ExportCounts ==
    (/\ reply.op = "export_batch"
     /\ \E i \in 1..Len(reply.body.request.stimulus_ids) :
           reply.body.request.stimulus_ids[i] \notin {" ", ","}) =>
        LET parts == Split(reply.body.request.stimulus_ids, ",")
            resolved == {i \in 1..Len(parts) : Strip(parts[i]) \in DOMAIN stimuli}
            audible == {i \in resolved :
                          LET row == stimuli[Strip(parts[i])]
                          IN  /\ row.audio_filename # None
                              /\ Get(row.audio_filename) \in outputs}
            audio == {k \in 1..Len(reply.body.entries) :
                        SubSeq(reply.body.entries[k], 1, 6) = AUDIO_DIR}
        IN  /\ reply.http = 200
            /\ reply.body.total = Cardinality(resolved)
            /\ Len(reply.body.stimuli) = Cardinality(resolved)
            /\ \A k \in 1..Len(reply.body.stimuli) :
                  reply.body.stimuli[k] \in DOMAIN stimuli
            /\ Cardinality(audio) = IF reply.body.request.include_audio
                                     THEN Cardinality(audible) ELSE 0

\* C9: three ids were asked with audio, one of them unknown and two of them
\* generated with their files on disk: total 2 and two audio entries
TwoOfThreeExported ==
    /\ reply.op = "export_batch"
    /\ reply.body.request =
         [stimulus_ids |-> StimId(1) \o <<",", " ">> \o UnknownId \o <<" ", ",">>
                           \o StimId(2),
          include_audio |-> TRUE]
    /\ reply.body.total = 2
    /\ Len(reply.body.entries) = 3
    /\ \A id \in ExportIds : id \in DOMAIN stimuli /\ stimuli[id].status = "generated"


(***************************************************************************)
(* Properties of the music router.                                         *)
(***************************************************************************)
\* C10: an upload overwrites no file: every file of before is there after
\* it with its own content.  The upload is stored under its sanitized stem
\* and extension when no file of the folder has that name, and otherwise as
\* <stem>_k<ext> for the smallest k >= 1 that no file of the folder uses:
\* <stem>_1<ext> when that name is free
UploadKeepsEarlierFiles ==
    [][reply'.op = "upload_music" =>
         /\ \A path \in DOMAIN uploads :
               path \in DOMAIN uploads' /\ uploads'[path] = uploads[path]
         /\ reply'.http = 200 =>
               LET request == reply'.body.request
                   stored == Get(reply'.body.path)
                   ext == Lower(PathSuffix(request.filename))
                   stem == sanitize_filename(PathStem(request.filename))
                   Used(name) == [dir |-> stored.dir, name |-> name] \in DOMAIN uploads
               IN  /\ ~Used(stored.name)
                   /\ DOMAIN uploads' = DOMAIN uploads \cup {stored}
                   /\ uploads'[stored] = request.content
                   /\ IF ~Used(stem \o ext) THEN stored.name = stem \o ext
                      ELSE \E k \in 1..(Cardinality(DOMAIN uploads) + 1) :
                             /\ stored.name = Numbered(stem, k, ext)
                             /\ \A j \in 1..(k - 1) : Used(Numbered(stem, j, ext))
                   /\ (Used(stem \o ext) /\ ~Used(Numbered(stem, 1, ext))) =>
                         stored.name = Numbered(stem, 1, ext)
    ]_vars

\* C10: a second upload that sanitizes to a.mp3 was stored as a_1.mp3, and
\* the first is in the folder with its own, different content
SecondUploadNumbered ==
    /\ reply.op = "upload_music"
    /\ reply.http = 200
    /\ reply.body.request.filename = <<"a", "!", ".", "M", "P", "3">>
    /\ Get(reply.body.path).name = <<"a", "_", "1", ".", "m", "p", "3">>
    /\ LET first == [dir |-> Get(reply.body.path).dir, name |-> <<"a", ".", "m", "p", "3">>]
       IN  /\ first \in DOMAIN uploads
           /\ uploads[first] # uploads[Get(reply.body.path)]


(***************************************************************************)
(* Properties of the word budget.                                          *)
(***************************************************************************)
\* the floor of max(0, duration - entry) / 60000 * wpm * clamp(speed) *
\* safety over the rationals
ExactWords(args) ==
    LET speed == IF FloatLess(args.voice_speed, Double(1, -1)) THEN Double(1, -1)
                 ELSE IF FloatLess(Double(2, 0), args.voice_speed) THEN Double(2, 0)
                 ELSE args.voice_speed
        time == IntMax(0, args.duration_ms - args.speech_entry_ms)
        product == BigMulSmall(BigMulSmall(BigMulSmall(BigOf(time), args.base_wpm, 0),
                                           BigToInt(speed.m), 0),
                               BigToInt(args.safety_factor.m), 0)
        scale == speed.e + args.safety_factor.e
        scaled == IF scale >= 0 THEN BigShl(product, scale)
                  ELSE BigShr(product, 0 - scale, FALSE).q
    IN  BigToInt(BigDivSmall(scaled, 60000).q)

IsExample(args) ==
    /\ args.duration_ms = 360000
    /\ args.voice_speed = Double(1, 0)
    /\ args.speech_entry_ms = 3000
    /\ args.base_wpm = 102
    /\ args.safety_factor = Double(1, 0)

InvalidCache(dir, profile_path) ==
    /\ profile_path \in DOMAIN dir
    /\ dir[profile_path].kind = "json"
    /\ ~(dir[profile_path].profile.pitch_mean > 0 /\ dir[profile_path].profile.pitch_std > 0)

ValidCache(dir, profile_path) ==
    /\ profile_path \in DOMAIN dir
    /\ dir[profile_path].kind = "json"
    /\ dir[profile_path].profile.pitch_mean > 0
    /\ dir[profile_path].profile.pitch_std > 0

\* the recording at `audio_path` is there and has pitch that varies
Extractable(dir, audio_path) ==
    /\ audio_path \in DOMAIN dir
    /\ dir[audio_path] = Audio("voiced")

\* the files a reference id stands for, in get_prosody_profile
ReferenceAudio(dir, reference) ==
    IF reference = NONE_REFERENCE THEN {}
    ELSE IF reference = GREAT_DICTATOR
    THEN {GREAT_DICTATOR \o ext : ext \in {M4A, MP3, WAV, OGG}} \cap DOMAIN dir
    ELSE {reference \o ext : ext \in {<<>>, M4A, MP3, WAV, OGG}} \cap DOMAIN dir

\* the cached profiles get_prosody_profile may consult for a reference id
ReferenceCaches(dir, reference) ==
    IF reference = GREAT_DICTATOR THEN {GREAT_DICTATOR \o PROFILE_JSON}
    ELSE {PathStem(f) \o PROFILE_JSON : f \in ReferenceAudio(dir, reference)}

\* C12: get_profile returns no profile with pitch_mean <= 0 or pitch_std <= 0:
\* `none` resolves to absent (404); a cached profile of the reference that
\* fails the validity check is deleted, and extraction is tried again: a
\* profile is returned exactly when the reference has a valid cached profile
\* or a recording whose extraction is valid, for the built-in and for custom
\* references
ProfileAbsentOrValid ==
    [][reply'.op = "get_profile" =>
         LET reference == reply'.body.reference_id
             profile == reply'.body.profile
             files == ReferenceAudio(prosody_dir, reference)
             caches == ReferenceCaches(prosody_dir, reference)
         IN  /\ reference = NONE_REFERENCE => profile = None /\ prosody_dir' = prosody_dir
             /\ reply'.http = IF profile = None THEN 404 ELSE 200
             /\ profile # None =>
                    Get(profile).pitch_mean > 0 /\ Get(profile).pitch_std > 0
             /\ \A profile_path \in caches :
                    InvalidCache(prosody_dir, profile_path) =>
                        ~InvalidCache(prosody_dir', profile_path)
             /\ profile # None <=>
                    \/ \E profile_path \in caches : ValidCache(prosody_dir, profile_path)
                    \/ \E f \in files : Extractable(prosody_dir, f)
    ]_vars

\* C12: the profile of the built-in reference was returned, valid, and is
\* the one in the cache
BuiltinProfileReturned ==
    /\ reply.op = "get_profile"
    /\ reply.body.reference_id = GREAT_DICTATOR
    /\ reply.http = 200
    /\ _is_valid_profile(Get(reply.body.profile))
    /\ prosody_dir[GREAT_DICTATOR \o PROFILE_JSON] = Json(Get(reply.body.profile))


\* C13: get_profile, preload and upload_reference write no invalid profile
\* to the cache: after each of them, no <stem>_profile.json holds a profile
\* with pitch_mean <= 0 or pitch_std <= 0 that the operation wrote
NoInvalidProfileCached ==
    [][reply'.op \in {"get_profile", "preload", "upload_reference"} =>
         \A profile_path \in DOMAIN prosody_dir' :
             InvalidCache(prosody_dir', profile_path) =>
                 /\ profile_path \in DOMAIN prosody_dir
                 /\ prosody_dir[profile_path] = prosody_dir'[profile_path]
    ]_vars

\* the files of the built-in reference: its recordings and its cached profile
BuiltinFiles(dir) ==
    {f \in DOMAIN dir : f = GREAT_DICTATOR \o PROFILE_JSON
                        \/ (PathStem(f) = GREAT_DICTATOR
                            /\ Lower(PathSuffix(f)) \in PROSODY_EXTENSIONS)}

\* C15: delete_reference deletes nothing of the built-in reference: whatever
\* the reference id, the recording of great_dictator and its cached profile
\* are there after the call as before, and the id great_dictator is answered
\* with 400
BuiltinReferenceKept ==
    [][reply'.op = "delete_reference" =>
         /\ \A f \in BuiltinFiles(prosody_dir) :
                f \in DOMAIN prosody_dir' /\ prosody_dir'[f] = prosody_dir[f]
         /\ reply'.body = GREAT_DICTATOR => reply'.http = 400
    ]_vars


LevelAhead(d, n) ==
    LET i_ms == (n - 1) * d.arguments.win_ms
    IN  _rms_dbfs(d.voice, i_ms + d.arguments.lookahead_ms,
                  i_ms + d.arguments.lookahead_ms + d.arguments.win_ms)

\* the least number of a set of numbers, 0 of the empty set
First(S) == IF S = {} THEN 0 ELSE CHOOSE n \in S : \A m \in S : n <= m

\* Of the windows passed: jump is the window at which the narration is first
\* seen ahead at -26 dBFS or more and stop the window at which silence is
\* first seen ahead after it; ducked is the first window from jump to before
\* stop whose gain is within 1 dB of its target, and recovered the first
\* window from stop on whose gain is within 1 dB of its target.  A window
\* that has not come is 0.
Measured(d) ==
    LET passed == 1..Len(d.out)
        ahead == [n \in passed |-> LevelAhead(d, n)]
        within == {n \in passed : Distance(d.out[n], d.targets[n]) <= GainPerDb}
        jump == First({n \in passed : ahead[n] >= -26 * LevelPerDb})
        stop == First({n \in passed : /\ jump > 0
                                      /\ n > jump
                                      /\ ahead[n] <= -48 * LevelPerDb})
        ducked == First({n \in within : /\ jump > 0
                                        /\ n >= jump
                                        /\ stop > 0 => n < stop})
        recovered == First({n \in within : stop > 0 /\ n >= stop})
    IN  [jump |-> jump, stop |-> stop, ducked |-> ducked, recovered |-> recovered]

AttackWindows(m) == m.ducked - m.jump + 1

ReleaseWindows(m) == m.recovered - m.stop + 1

\* C18: a window moves the gain by 60/180 of its distance to the target when
\* the target is below it and by 60/650 otherwise, to the rounding of one
\* unit; and once the gain has come within 1 dB of the duck target while the
\* narration is seen ahead, and within 1 dB of its target after the
\* narration is no longer seen, the first took fewer windows than the second
AttackFasterThanRelease ==
    [][duck'.pc \in {"loop", "done"} /\ duck' # duck =>
         LET n == Len(duck'.out)
             moved == duck'.out[n] - duck.prev_gain
             ahead == duck'.targets[n] - duck.prev_gain
             m == Measured(duck')
         IN  /\ ahead < 0 => Distance(180 * moved, 60 * ahead) <= 180
             /\ ahead >= 0 => Distance(650 * moved, 60 * ahead) <= 650
             /\ m.ducked > 0 /\ m.recovered > 0 =>
                    AttackWindows(m) < ReleaseWindows(m)
    ]_vars

\* C18: with the arguments of mix_audio, a narration at -20 dBFS has been
\* ducked and the music has recovered
DuckedAndRecovered ==
    /\ duck.pc = "done"
    /\ duck.arguments.max_duck_db = -150000
    /\ duck.voice.level = -20 * LevelPerDb
    /\ LET m == Measured(duck)
       IN  /\ m.ducked > m.jump
           /\ m.recovered > m.stop


\* the narration in window n is above -45 dBFS
VoicedWindow(d, n) ==
    _rms_dbfs(d.voice, (n - 1) * d.arguments.win_ms, n * d.arguments.win_ms)
        > -45 * LevelPerDb

\* the silent windows that end with window n, one after the other
RECURSIVE SilentWindows(_, _)
SilentWindows(d, n) ==
    IF n = 0 \/ VoicedWindow(d, n) THEN 0 ELSE 1 + SilentWindows(d, n - 1)

\* C25: a silent window after a voiced one, whose run of silence is shorter
\* than 2600 ms, has the lesser of the target for the level ahead and
\* max(max_duck_db + 1.5, -1.5) dB as its target; every other window, and so
\* a silent one whose run of silence has reached 2600 ms, has the target for
\* the level ahead; the run of silence of a voiced window is 0
GapHoldCapsTarget ==
    [][duck' # duck =>
         LET n == Len(duck'.out)
             a == duck.arguments
             silent == SilentWindows(duck, n)
             seen == DuckTarget(LevelAhead(duck, n), a.floor_boost_db, a.max_duck_db)
             cap == IF a.max_duck_db + 150000 > -150000 THEN a.max_duck_db + 150000
                    ELSE -150000
             held == /\ silent > 0
                     /\ silent < n
                     /\ silent * a.win_ms < a.gap_hold_ms
         IN  /\ duck'.targets[n] = IF held /\ cap < seen THEN cap ELSE seen
             /\ held => duck'.targets[n] <= cap
             /\ duck'.in_voice_region = (silent < n /\ silent * a.win_ms < a.gap_hold_ms)
             /\ VoicedWindow(duck, n) => duck'.silence_run_ms = 0
    ]_vars

\* C25: the music was held down through a pause of 1200 ms with silence
\* ahead, and let up after the narration
HeldThroughPause ==
    /\ duck.pc = "done"
    /\ duck.voice.resume_ms = duck.voice.end_ms + 1200
    /\ duck.arguments.max_duck_db = -150000
    /\ \E n \in 1..Len(duck.targets) :
          /\ n * 60 <= duck.voice.resume_ms - 500
          /\ ~VoicedWindow(duck, n)
          /\ LevelAhead(duck, n) <= -48 * LevelPerDb
          /\ duck.targets[n] = 0
    /\ duck.targets[Len(duck.targets)] = duck.arguments.floor_boost_db

(***************************************************************************)
(* Properties of the speech requests.                                      *)
(***************************************************************************)
Succeeded(answer) == answer.kind = "http" /\ answer.status \in 200..399

Transient(answer) ==
    \/ answer.kind \in {"connection", "timeout"}
    \/ answer.kind = "http" /\ answer.status \in {429, 500, 502, 503, 504}

\* a 4xx status other than 429
NonTransient(answer) ==
    answer.kind = "http" /\ answer.status \in 400..499 /\ answer.status # 429

\* C19: a chunk takes at most three requests; a request that succeeds is the
\* last and the chunk is returned; a transient failure of the first request
\* is followed by a sleep of 1.5 s and of the second by a sleep of 2.25 s,
\* and the chunk is not given up; a failure of the third request raises the
\* error of that request after the two sleeps, without a third
ThreeRequestsWithBackoff ==
    LET n == Len(synth.answers)
    IN  /\ n <= 3
        /\ Len(synth.slept) <= 2
        /\ synth.pc = "returned" <=> n >= 1 /\ Succeeded(synth.answers[n])
        /\ \A k \in 1..n :
              /\ Succeeded(synth.answers[k]) => k = n
              /\ Transient(synth.answers[k]) /\ k < 3 =>
                    /\ Len(synth.slept) >= k
                    /\ synth.slept[k] = <<150, 225>>[k]
                    /\ synth.pc = "post" \/ n > k
        /\ n = 3 /\ ~Succeeded(synth.answers[n]) =>
              /\ synth.pc = "raised"
              /\ synth.slept = <<150, 225>>
              /\ synth.raised = Caught(synth.answers[n])
              /\ synth.raised # None

\* C19: the third request failed after a 503 and a timeout
ThirdFailureRaised ==
    /\ synth.pc = "raised"
    /\ Len(synth.answers) = 3
    /\ synth.answers[1] = HttpAnswer(503)
    /\ synth.answers[2] = TimedOut
    /\ synth.answers[3] = HttpAnswer(429)
    /\ synth.raised = Some(HTTPError(429))

\* C20: a request answered with a 4xx status other than 429 is the only
\* request of the chunk: its error is raised and nothing has been slept
NonTransientRaisedAtOnce ==
    \A k \in 1..Len(synth.answers) :
        NonTransient(synth.answers[k]) =>
            /\ k = 1
            /\ Len(synth.answers) = 1
            /\ synth.pc = "raised"
            /\ synth.slept = <<>>


(***************************************************************************)
(* Properties of the connection scope.                                     *)
(***************************************************************************)
\* C21: when a scope ends its connection is closed; a scope that ends
\* normally has committed every row its body wrote, and a scope that an
\* exception ends has committed none of them: the database is as before
ScopeCommitsAllOrNothing ==
    [][conn.pc = "body" /\ conn'.pc = "idle" =>
         /\ ~conn'.open
         /\ conn'.transaction = <<>>
         /\ conn'.result \in {"returned", "raised", "interrupted"}
         /\ conn'.result = "returned" =>
               conn'.database = conn.database \cup Range(conn.transaction)
         /\ conn'.result # "returned" => conn'.database = conn.database
    ]_vars

\* C21: a scope has been ended by an exception after another had committed
\* two rows
RolledBackAfterCommit ==
    /\ conn.pc = "idle"
    /\ ~conn.open
    /\ conn.result = "raised"
    /\ conn.database = {1, 2}


(***************************************************************************)
(* Properties of the chunker.                                              *)
(***************************************************************************)
\* the characters of a text that are no whitespace, in order
RECURSIVE NonSpace(_)
NonSpace(text) ==
    IF text = <<>> THEN <<>>
    ELSE IF IsSpace(text[1]) THEN NonSpace(Tail(text))
    ELSE <<text[1]>> \o NonSpace(Tail(text))

RECURSIVE Flatten(_)
Flatten(seqs) == IF seqs = <<>> THEN <<>> ELSE seqs[1] \o Flatten(Tail(seqs))

\* the sentences of a text: what lies between the runs of whitespace that
\* follow a full stop, stripped, the empty ones left out
SentencesOf(text) ==
    LET parts == SentencesFrom(Strip(text), 1, <<>>)
        RECURSIVE Kept(_)
        Kept(ps) == IF ps = <<>> THEN <<>>
                    ELSE IF Strip(ps[1]) = <<>> THEN Kept(Tail(ps))
                    ELSE <<Strip(ps[1])>> \o Kept(Tail(ps))
    IN  Kept(parts)

\* the units of a text: a sentence of at most max_chars characters whole, a
\* longer one in slices of max_chars characters
UnitsOf(text, max_chars) ==
    LET RECURSIVE Units(_)
        Units(ss) ==
            IF ss = <<>> THEN <<>>
            ELSE IF Len(ss[1]) <= max_chars
            THEN <<[text |-> ss[1], whole |-> TRUE]>> \o Units(Tail(ss))
            ELSE [n \in 1..((Len(ss[1]) + max_chars - 1) \div max_chars) |->
                    [text |-> SubSeq(ss[1], (n - 1) * max_chars + 1,
                                     IntMin(n * max_chars, Len(ss[1]))),
                     whole |-> FALSE]] \o Units(Tail(ss))
    IN  Units(SentencesOf(text))

\* chunks are the units grouped at the ends `cuts`: a group of several units
\* holds whole sentences joined by spaces, and a group of whole sentences
\* ends only where the next unit is a slice or would not fit
GreedyGrouping(chunks, units, cuts, max_chars) ==
    LET ends == [n \in 1..Cardinality(cuts) |->
                    CHOOSE e \in cuts : Cardinality({c \in cuts : c <= e}) = n]
        first(n) == IF n = 1 THEN 1 ELSE ends[n - 1] + 1
        group(n) == SubSeq(units, first(n), ends[n])
    IN  /\ Len(units) \in cuts \/ units = <<>>
        /\ Len(chunks) = Cardinality(cuts)
        /\ \A n \in 1..Len(chunks) :
              /\ chunks[n] = JoinSpace([k \in 1..Len(group(n)) |-> group(n)[k].text])
              /\ Len(group(n)) > 1 => \A k \in 1..Len(group(n)) : group(n)[k].whole
              /\ group(n)[1].whole /\ ends[n] < Len(units) /\ units[ends[n] + 1].whole =>
                    Len(chunks[n]) + 1 + Len(units[ends[n] + 1].text) > max_chars

\* C22: a text that, stripped, is no longer than max_chars comes back as the
\* one chunk of the stripped text; a longer one comes back in chunks of at
\* most max_chars characters that hold the characters that are no whitespace
\* once each and in order, and that are its sentences packed greedily, only
\* a sentence longer than max_chars being cut, at every max_chars characters
ChunksPackSentences ==
    reply.op = "chunks" =>
        LET text == reply.body.text
            max_chars == reply.body.max_chars
            chunks == reply.body.chunks
            units == UnitsOf(text, max_chars)
        IN  IF Len(Strip(text)) <= max_chars
            THEN chunks = <<Strip(text)>>
            ELSE /\ \A n \in 1..Len(chunks) : Len(chunks[n]) <= max_chars
                 /\ NonSpace(Flatten(chunks)) = NonSpace(text)
                 /\ \E cuts \in SUBSET (1..Len(units)) :
                        GreedyGrouping(chunks, units, cuts, max_chars)

\* C22: ". . a." with a limit of 3 came back as ". ." and "a."
TwoSentencesPacked ==
    /\ reply.op = "chunks"
    /\ reply.body.text = <<".", " ", ".", " ", "a">>
    /\ reply.body.max_chars = 3
    /\ reply.body.chunks = << <<".", " ", ".">>, <<"a">> >>


(***************************************************************************)
(* Properties of the fitting step.                                         *)
(***************************************************************************)
\* C23: the segment that comes back has exactly the target count of frames
FitIsExact ==
    reply.op = "fit" => reply.body.frames = reply.body.target


(***************************************************************************)
(* Properties of the extraction with conversion.                           *)
(***************************************************************************)
\* C24: when extract_prosody returns for a file that is no WAV file, no
\* temporary file exists that did not exist before
NoTemporaryWavLeft ==
    [][reply'.op = "extract" /\ reply'.body.extension # WAV =>
         DOMAIN tmp_dir' \subseteq DOMAIN tmp_dir]_vars



(***************************************************************************)
(* Properties of POST /generate/direct over existing records.              *)
(***************************************************************************)
\* the ids whose records were in the catalog before the call that handler h
\* is serving: all of them, but the one the call has created itself
ExistedBefore(h) ==
    IF run[h].save_to_db /\ run[h].log # <<>> /\ run[h].log[1] = "created"
    THEN DOMAIN stimuli \ {run[h].id}
    ELSE DOMAIN stimuli

\* C27: no step of a generate_direct call alters a record that was in the
\* catalog before the call (its parameters, status, audio_filename and
\* duration_ms stay as they were), also when the call names the id of that
\* record with save_to_db; and a call without save_to_db leaves the whole
\* catalog as it is.
DirectKeepsExistingRecords ==
    [][\A h \in Handlers :
          run[h].kind = "direct" =>
            /\ \A id \in ExistedBefore(h) :
                  id \in DOMAIN stimuli' /\ stimuli'[id] = stimuli[id]
            /\ ~run[h].save_to_db => stimuli' = stimuli]_vars


(***************************************************************************)
(* Properties of references that share a stem.                             *)
(***************************************************************************)
\* C28: the profile get_profile returns for a custom reference was extracted
\* from a recording this reference id stands for, also when ref.mp3 and
\* ref.wav are both in the directory; and delete_reference leaves the cached
\* profile of every recording that is still in the directory.
ProfileOfOwnRecording ==
    [][/\ (/\ reply'.op = "get_profile"
           /\ reply'.http = 200
           /\ reply'.body.reference_id \notin {NONE_REFERENCE, GREAT_DICTATOR})
          => Get(reply'.body.profile).source_file
                \in ReferenceAudio(prosody_dir, reply'.body.reference_id)
       /\ reply'.op = "delete_reference"
          => \A f \in AudioFiles(prosody_dir') :
                PathStem(f) \o PROFILE_JSON \in DOMAIN prosody_dir
                    => PathStem(f) \o PROFILE_JSON \in DOMAIN prosody_dir'
    ]_vars


(***************************************************************************)
(* Properties of the track paths.                                          *)
(***************************************************************************)
\* C29: generation looks a listed track path up at the file that
\* get_track_by_path resolves this path to, the paths of uploaded tracks
\* included, and so finds the track: it does not fail for want of it.
GenerationFindsListedTrack ==
    reply.op = "generate" =>
        /\ reply.body.full_path = get_full_path_from_api_path(reply.body.path)
        /\ reply.body.status # "failed"


(***************************************************************************)
(* Properties of interleaved creations.                                    *)
(***************************************************************************)
\* C30: every POST /stimuli without an id is answered with success,
\* however the scopes of two such requests interleave, and two requests
\* answered at the same time were given different ids, each holding the
\* record of its own request.
InterleavedCreatesSucceed ==
    /\ \A h \in Handlers :
          run[h].kind = "create" /\ run[h].pc = "done" =>
              /\ run[h].response.http = 200
              /\ run[h].id \in DOMAIN stimuli
    /\ \A g, h \in Handlers :
          (/\ g # h
           /\ run[g].kind = "create" /\ run[g].pc = "done"
           /\ run[h].kind = "create" /\ run[h].pc = "done") => run[g].id # run[h].id


=============================================================================
